---- MODULE Spec2Model ----
(***************************************************************************)
(* A model of the o2 trading bot's execution pipeline.                     *)
(*                                                                         *)
(*   Spec       the Session Authority: the promise-chained submission      *)
(*              queue, signing, the POST to the venue, nonce recovery and  *)
(*              the single retry, fed by OrderManager.placeOrder and       *)
(*              OrderManager.cancelOrder.                                  *)
(*   SpecFill   the Order Lifecycle Manager's fill detection: seeding of   *)
(*              the last-observed map at start-up, push and poll updates,  *)
(*              the cumulative-quantity dedup.                             *)
(*   SpecSched  the Cycle Scheduler: schedules, timers, start/stop,        *)
(*              selection of the earliest active market and dispatch.      *)
(*                                                                         *)
(* Quantities are the venue's integer (asset-decimal scaled) strings; the  *)
(* model keeps them below 2^53, where parseFloat is exact.                 *)
(***************************************************************************)
EXTENDS Integers, Sequences, FiniteSets, TLC

(***************************************************************************)
(* Bounds of the model.                                                    *)
(***************************************************************************)
MaxSubs == 3          \* submitActions calls in one run
InitNonceMax == 1     \* the venue's nonce at start-up is in 0..InitNonceMax

NoNonce == 0 - 1      \* "no value": a regex that did not match, a field not set
Tasks == 1..MaxSubs
MarketIds == {"m1", "m2"}

VARIABLES
  \* ---- SessionManager (src/src/auth/session-manager.ts)
  nonce,          \* this.nonce
  actionQueue,    \* this.actionQueue: the run the next call chains on (0: Promise.resolve())
  nextTask,       \* number of submitActions calls made so far
  pc,             \* per call: "idle", "queued", "sign", "post", "fetch", "ok", "failed"
  prev,           \* per call: the run its fn was chained on by enqueue
  req,            \* per call: [market, actions] as passed to submitActions, and the caller (by)
  isRetry,        \* per call: the isRetry argument of the running submitActionsImpl
  signNonce,      \* per call: the nonce encoded into bytesToSign (line 292)
  payload,        \* per call: the payload handed to the transport (lines 295-304)
  err,            \* per call: the error body of the failed attempt while fetchNonce is awaited
  \* ---- the venue
  vNonce,         \* the venue's authoritative nonce of the trade account
  \* ---- history (observers, never read by the program)
  sends,          \* per call: POSTs issued
  signedWith,     \* {<<call, nonce>>}: every nonce a call was signed with
  acked,          \* nonces a response showed to be consumed (success or increment event)
  recovered,      \* per call: the local nonce right after the first attempt's recovery chose to retry
  firstConflict,  \* per call: the venue rejected the first attempt for its nonce (database hint)
  lastFailure     \* what the step just taken did with a failed attempt, NoFailure after
                  \* any other step: [call, invalid, conflict, retry, resent, emitted]

sessVars == <<nonce, actionQueue, nextTask, pc, prev, req, isRetry, signNonce,
              payload, err, vNonce, sends, signedWith, acked, recovered, firstConflict,
              lastFailure>>

(***************************************************************************)
(* Actions lists (src/src/types/api.ts SessionAction), as tuples of        *)
(* strings: <<"SettleBalance", to>>, <<"CreateOrder", side, order_type>>,  *)
(* <<"CancelOrder", order_id>>.                                            *)
(***************************************************************************)
Self == "tradeAccountId"

PlaceOrderActionsNoTrailingSettle(side, orderType) ==
  << <<"SettleBalance", Self>>, <<"CreateOrder", side, orderType>> >>

\* OrderManager.placeOrder: the settle-balance sandwich around the create-order
PlaceOrderActions(side, orderType) ==
  << <<"SettleBalance", Self>>,
     <<"CreateOrder", side, orderType>>,
     <<"SettleBalance", Self>> >>

\* OrderManager.cancelOrder: one cancel action
CancelOrderActions(orderId) == << <<"CancelOrder", orderId>> >>

\* The placements the strategy executor makes: buy and sell of the configured
\* type ('Spot' or 'Market'), and the stop-loss sell, always 'Market'.
Placements == {<<"Buy", "Spot">>, <<"Sell", "Spot">>, <<"Sell", "Market">>}
OrderIds == {"o1"}

NoReq == [market |-> "", actions |-> << >>, by |-> ""]
NoPayload == [nonce |-> NoNonce, market |-> "", actions |-> << >>, calls |-> << >>]

\* submitActionsImpl, the loop of lines 242-289: one call argument per action
\* of a known kind, actions of any other kind skipped.
EncodeCalls(actions) ==
  SelectSeq(actions, LAMBDA a : a[1] \in {"SettleBalance", "CreateOrder", "CancelOrder"})

(***************************************************************************)
(* Error bodies.  inc: the N of "IncrementNonceEvent { nonce: N }" or      *)
(* NoNonce; db: the N of "nonce in the database(N)" or NoNonce; word: the  *)
(* text holds "nonce" or "Nonce" elsewhere; invalid: the text holds        *)
(* "Invalid session address".                                              *)
(***************************************************************************)
NoErr == [inc |-> NoNonce, db |-> NoNonce, word |-> FALSE, invalid |-> FALSE, none |-> TRUE]
ErrBody(i, d, w, v) == [inc |-> i, db |-> d, word |-> w, invalid |-> v, none |-> FALSE]

\* errStr.includes('nonce') || errStr.includes('Nonce'): both patterns the
\* recovery parses contain the word themselves.
HasNonceWord(e) == e.inc # NoNonce \/ e.db # NoNonce \/ e.word

\* The text reports a nonce conflict: the database hint, or another mention
\* of the nonce.  The increment event of a reverted submission is none.
NonceConflict(e) == e.db # NoNonce \/ e.word

\* lines 319-333: the increment event first, then the database hint
NonceSynced(e) == e.inc # NoNonce \/ e.db # NoNonce

RecoverFromBodyHintFirst(n, e) ==
  IF e.db # NoNonce THEN e.db ELSE IF e.inc # NoNonce THEN e.inc ELSE n

RecoverFromBody(n, e) ==
  IF e.inc # NoNonce THEN e.inc ELSE IF e.db # NoNonce THEN e.db ELSE n

ShouldRetryAlways(retry, e) == HasNonceWord(e) /\ ~e.invalid

\* line 341: retry once on nonce mismatch
ShouldRetry(retry, e) == ~retry /\ HasNonceWord(e) /\ ~e.invalid

\* lines 346-348: this.emit('sessionInvalid')
EmitsSessionInvalid(retry, e) == ~retry /\ e.invalid

NoFailure == [call |-> 0, invalid |-> FALSE, conflict |-> FALSE, retry |-> FALSE,
              resent |-> FALSE, emitted |-> FALSE]

\* fetchNonce, lines 354-363: the nonce the venue reports, or the nonce kept
\* when the query fails or its answer carries none (q = NoNonce).
FetchNonce(n, q) == IF q # NoNonce THEN q ELSE n

IncrementNonceStuck(n) == n

\* incrementNonce, line 365
IncrementNonce(n) == n + 1

(***************************************************************************)
(* enqueue, lines 217-221.                                                 *)
(***************************************************************************)
ChainOnResolved(q) == 0

\* line 218: this.actionQueue.then(fn, fn): fn is chained on the current tail
ChainOn(q) == q

AfterFulfilledOnly(st) == st = "ok"

\* line 218: fn is both the fulfilment and the rejection handler
PredSettled(st) == st \in {"ok", "failed"}

\* line 219: the new tail is the run just chained
NextQueue(q, run) == run

CanStart(t) ==
  /\ pc[t] = "queued"
  /\ IF prev[t] = 0 THEN TRUE ELSE PredSettled(pc[prev[t]])

(***************************************************************************)
(* The venue's answers to a POST carrying nonce pn, signed over sn, when   *)
(* its nonce is v.  A submission is recorded (and the nonce consumed) only *)
(* when pn = sn = v.  ok: accepted.  Otherwise an error body:              *)
(*   revert      recorded on chain and reverted: the body carries the      *)
(*               increment event with the new nonce;                       *)
(*   conflict    pn # v: "nonce in the database(v)";                       *)
(*   invalid     "Invalid session address";                                *)
(*   plain       a transport error or a rejection that names no nonce      *)
(*               (with or without the word "nonce" in its text); the       *)
(*               10 s timeout of the POST can hit after the venue has      *)
(*               recorded the submission (lost response).                  *)
(***************************************************************************)
Outcome(o, vn, e) == [ok |-> o, vNext |-> vn, body |-> e]

VenueOutcomes(pn, sn, v) ==
  LET fits == pn = v /\ sn = pn IN
  (IF fits
     THEN { Outcome(TRUE, v + 1, NoErr),
            Outcome(FALSE, v + 1, ErrBody(v + 1, NoNonce, FALSE, FALSE)),
            Outcome(FALSE, v + 1, ErrBody(NoNonce, NoNonce, FALSE, FALSE)) }
     ELSE {})
  \cup (IF pn # v
          THEN { Outcome(FALSE, v, ErrBody(NoNonce, v, FALSE, FALSE)) }
          ELSE {})
  \cup { Outcome(FALSE, v, ErrBody(NoNonce, NoNonce, w, FALSE)) : w \in BOOLEAN }
  \cup { Outcome(FALSE, v, ErrBody(NoNonce, NoNonce, FALSE, TRUE)) }

(***************************************************************************)
(* Initial state of the session pipeline: the session is established, the  *)
(* market contracts are initialised.  initialize() and restoreSession()    *)
(* swallow a failed fetchNonce, so the local nonce starts at the venue's   *)
(* value or short of it.                                                   *)
(***************************************************************************)
InitSession ==
  /\ vNonce \in 0..InitNonceMax
  /\ nonce \in {0, vNonce}
  /\ actionQueue = 0
  /\ nextTask = 0
  /\ pc = [t \in Tasks |-> "idle"]
  /\ prev = [t \in Tasks |-> 0]
  /\ req = [t \in Tasks |-> NoReq]
  /\ isRetry = [t \in Tasks |-> FALSE]
  /\ signNonce = [t \in Tasks |-> NoNonce]
  /\ payload = [t \in Tasks |-> NoPayload]
  /\ err = [t \in Tasks |-> NoErr]
  /\ sends = [t \in Tasks |-> 0]
  /\ signedWith = {}
  /\ acked = {}
  /\ recovered = [t \in Tasks |-> NoNonce]
  /\ firstConflict = [t \in Tasks |-> FALSE]
  /\ lastFailure = NoFailure

\* submitActions + enqueue: the call gets the next id, its fn is chained on
\* the tail, and the tail becomes this run.
Enqueue(market, actions, caller) ==
  /\ nextTask < MaxSubs
  /\ LET t == nextTask + 1 IN
       /\ nextTask' = t
       /\ pc' = [pc EXCEPT ![t] = "queued"]
       /\ prev' = [prev EXCEPT ![t] = ChainOn(actionQueue)]
       /\ req' = [req EXCEPT ![t] =
                   [market |-> market, actions |-> actions, by |-> caller]]
       /\ actionQueue' = NextQueue(actionQueue, t)
  /\ lastFailure' = NoFailure
  /\ UNCHANGED <<nonce, isRetry, signNonce, payload, err, vNonce, sends,
                 signedWith, acked, recovered, firstConflict>>

\* OrderManager.placeOrder
PlaceOrder ==
  \E m \in MarketIds, p \in Placements :
    Enqueue(m, PlaceOrderActions(p[1], p[2]), "placeOrder")

\* OrderManager.cancelOrder
CancelOrder ==
  \E m \in MarketIds, o \in OrderIds :
    Enqueue(m, CancelOrderActions(o), "cancelOrder")

\* submitActionsImpl up to `await this.sessionSigner.sign(...)`: the bytes to
\* sign are built over this.nonce.
BeginSign(t) ==
  /\ signNonce' = [signNonce EXCEPT ![t] = nonce]
  /\ signedWith' = signedWith \cup {<<t, nonce>>}
  /\ pc' = [pc EXCEPT ![t] = "sign"]

\* The queue runs the call's fn once the run it was chained on has settled.
Start(t) ==
  /\ CanStart(t)
  /\ BeginSign(t)
  /\ lastFailure' = NoFailure
  /\ UNCHANGED <<nonce, actionQueue, nextTask, prev, req, isRetry, payload, err,
                 vNonce, sends, acked, recovered, firstConflict>>

\* The signature is back: the payload is built (nonce read again) and POSTed.
Post(t) ==
  /\ pc[t] = "sign"
  /\ payload' = [payload EXCEPT ![t] =
                   [nonce |-> nonce, market |-> req[t].market,
                    actions |-> req[t].actions, calls |-> EncodeCalls(req[t].actions)]]
  /\ sends' = [sends EXCEPT ![t] = @ + 1]
  /\ pc' = [pc EXCEPT ![t] = "post"]
  /\ lastFailure' = NoFailure
  /\ UNCHANGED <<nonce, actionQueue, nextTask, prev, req, isRetry, signNonce, err,
                 vNonce, signedWith, acked, recovered, firstConflict>>

\* The promise of the call settles: the arguments and locals of
\* submitActionsImpl (the request, the signed bytes, the payload) are gone.
Settle(t, st) ==
  /\ pc' = [pc EXCEPT ![t] = st]
  /\ req' = [req EXCEPT ![t] = NoReq]
  /\ isRetry' = [isRetry EXCEPT ![t] = FALSE]
  /\ signNonce' = [signNonce EXCEPT ![t] = NoNonce]
  /\ payload' = [payload EXCEPT ![t] = NoPayload]
  /\ recovered' = [recovered EXCEPT ![t] = NoNonce]

\* lines 307-312: the response of an accepted submission
RespondOk(t) ==
  /\ pc[t] = "post"
  /\ \E o \in VenueOutcomes(payload[t].nonce, signNonce[t], vNonce) :
       /\ o.ok
       /\ vNonce' = o.vNext
       /\ nonce' = IncrementNonce(nonce)
       /\ acked' = acked \cup {payload[t].nonce}
       /\ Settle(t, "ok")
  /\ lastFailure' = NoFailure
  /\ UNCHANGED <<actionQueue, nextTask, prev, err, sends, signedWith, firstConflict>>

\* lines 340-350 after the nonce is synced: retry the same submission (the
\* recursive call runs synchronously up to its own await of the signature),
\* or signal an invalid session and throw to the caller.
Decide(t, e, n) ==
  /\ lastFailure' = [call |-> t, invalid |-> e.invalid, conflict |-> NonceConflict(e),
                     retry |-> isRetry[t],
                     resent |-> ShouldRetry(isRetry[t], e),
                     emitted |-> ~ShouldRetry(isRetry[t], e) /\ EmitsSessionInvalid(isRetry[t], e)]
  /\ IF ShouldRetry(isRetry[t], e)
    THEN /\ isRetry' = [isRetry EXCEPT ![t] = TRUE]
         /\ signNonce' = [signNonce EXCEPT ![t] = n]
         /\ signedWith' = signedWith \cup {<<t, n>>}
         /\ recovered' = [recovered EXCEPT ![t] = n]
         /\ pc' = [pc EXCEPT ![t] = "sign"]
         /\ UNCHANGED <<req, payload>>
    ELSE /\ Settle(t, "failed")
         /\ UNCHANGED signedWith

\* lines 313-338: the POST failed; the nonce is read from the error body, or
\* the fallback query of the venue is awaited.
RespondError(t) ==
  /\ pc[t] = "post"
  /\ \E o \in VenueOutcomes(payload[t].nonce, signNonce[t], vNonce) :
       /\ ~o.ok
       /\ vNonce' = o.vNext
       /\ acked' = IF o.body.inc # NoNonce THEN acked \cup {payload[t].nonce} ELSE acked
       /\ firstConflict' = IF isRetry[t] THEN firstConflict
                           ELSE [firstConflict EXCEPT ![t] = o.body.db # NoNonce]
       /\ IF NonceSynced(o.body)
            THEN /\ nonce' = RecoverFromBody(nonce, o.body)
                 /\ Decide(t, o.body, RecoverFromBody(nonce, o.body))
                 /\ err' = err
            ELSE /\ pc' = [pc EXCEPT ![t] = "fetch"]
                 /\ err' = [err EXCEPT ![t] = o.body]
                 /\ lastFailure' = NoFailure
                 /\ UNCHANGED <<nonce, req, isRetry, signNonce, payload, signedWith,
                                recovered>>
  /\ UNCHANGED <<actionQueue, nextTask, prev, sends>>

\* fetchNonce (lines 354-363) as the fallback of line 337: the venue's nonce
\* is adopted, or the query fails and the failure is swallowed.
FetchNonceDone(t) ==
  /\ pc[t] = "fetch"
  /\ \E fetched \in BOOLEAN :
       LET n == FetchNonce(nonce, IF fetched THEN vNonce ELSE NoNonce) IN
         /\ nonce' = n
         /\ Decide(t, err[t], n)
  /\ err' = [err EXCEPT ![t] = NoErr]
  /\ UNCHANGED <<actionQueue, nextTask, prev, vNonce, sends, acked, firstConflict>>

SessionNext ==
  \/ PlaceOrder
  \/ CancelOrder
  \/ \E t \in Tasks : Start(t)
  \/ \E t \in Tasks : Post(t)
  \/ \E t \in Tasks : RespondOk(t)
  \/ \E t \in Tasks : RespondError(t)
  \/ \E t \in Tasks : FetchNonceDone(t)

(***************************************************************************)
(* Claims about the session pipeline (checked under Spec).                 *)
(***************************************************************************)
Settled(t) == pc[t] \in {"ok", "failed"}
InFlight == {t \in Tasks : pc[t] = "post"}
Called == 1..nextTask

\* C1: for any interleaving of concurrent submitActions calls, at most one
\* signed payload is in flight at the transport (between the POST being
\* issued and its response or error being received).
C1_OneInFlight == Cardinality(InFlight) <= 1

\* A payload is in flight while a call made for the other market waits.
C1_Witness ==
  \E t, u \in Tasks :
    /\ pc[t] = "post"
    /\ pc[u] = "queued"
    /\ req[t].market # req[u].market

\* C2: once every submission made so far has completed (succeeded, or failed
\* and gone through nonce recovery and the optional single retry), the local
\* nonce equals the venue's nonce.
C2_NonceEqualsVenue ==
  (nextTask >= 1 /\ \A t \in Called : Settled(t)) => nonce = vNonce

\* C3 (as stated): no two distinct submissions are ever signed with the same
\* nonce value.
C3_NoNonceSignedTwice ==
  \A a, b \in signedWith : a[2] = b[2] => a[1] = b[1]

\* C3 (amended): no submission is signed with a nonce that a response has
\* shown to be consumed (a success, or a failure carrying the chain's
\* nonce-increment event).
C3_ConsumedNonceNotSignedAgain ==
  \A t \in Tasks : pc[t] \in {"sign", "post"} => signNonce[t] \notin acked

\* A submission is being signed with the nonce an earlier, failed one was
\* signed with, after yet another one has consumed a nonce.
C3_Witness ==
  \E t, u \in Tasks :
    /\ t # u
    /\ pc[t] = "sign"
    /\ pc[u] = "failed"
    /\ <<u, signNonce[t]>> \in signedWith
    /\ acked # {}

\* C4: the queue is FIFO.  A call has begun signing (or has given its caller a
\* result) only if every call made before it, retry included, has settled;
\* and a call whose predecessors have all settled, by success or by failure,
\* can begin.
C4_FifoQueue ==
  \A t \in Tasks :
    /\ pc[t] \notin {"idle", "queued"} => \A u \in 1..(t - 1) : Settled(u)
    /\ (pc[t] = "queued" /\ \A u \in 1..(t - 1) : Settled(u)) => ENABLED Start(t)

\* A call is signing right behind a failed one, with a third one waiting.
C4_Witness ==
  \E t \in Tasks :
    /\ t > 1
    /\ pc[t - 1] = "failed"
    /\ pc[t] = "sign"
    /\ \E u \in Tasks : u > t /\ pc[u] = "queued"

C19_InvalidSessionAlwaysSignalled ==
  (lastFailure # NoFailure /\ lastFailure.invalid) =>
    /\ ~lastFailure.resent
    /\ lastFailure.emitted
    /\ pc[lastFailure.call] = "failed"

\* C22: a failed first attempt is sent a second time if and only if its error
\* text reports a nonce conflict and no invalid session; a failure that is
\* not a nonce conflict (a revert whose body only carries the increment
\* event) is surfaced to the caller without a second send.
C22_ResentIffNonceConflict ==
  (lastFailure # NoFailure /\ ~lastFailure.retry) =>
    /\ lastFailure.resent <=> (lastFailure.conflict /\ ~lastFailure.invalid)
    /\ ~lastFailure.resent => pc[lastFailure.call] = "failed"

\* C9: every payload of a placeOrder call carries settle-balance-to-self,
\* create-order, settle-balance-to-self, in that order and nothing else, on
\* the first attempt and on the retry, and those three calls are what is signed.
C9_SettleSandwich ==
  \A t \in Tasks :
    (pc[t] = "post" /\ req[t].by = "placeOrder") =>
      /\ Len(payload[t].actions) = 3
      /\ payload[t].actions[1] = <<"SettleBalance", Self>>
      /\ payload[t].actions[2][1] = "CreateOrder"
      /\ <<payload[t].actions[2][2], payload[t].actions[2][3]>> \in Placements
      /\ payload[t].actions[3] = <<"SettleBalance", Self>>
      /\ payload[t].calls = payload[t].actions

\* The retry of a stop-loss sell (a Market sell) is in flight.
C9_Witness ==
  \E t \in Tasks :
    /\ pc[t] = "post"
    /\ isRetry[t]
    /\ req[t].by = "placeOrder"
    /\ payload[t].actions[2] = <<"CreateOrder", "Sell", "Market">>

(***************************************************************************)
(* Nonce recovery on its own: the catch block of submitActionsImpl, lines  *)
(* 313-338, applied to one error body, one local nonce and one answer of   *)
(* the fallback query.                                                     *)
(***************************************************************************)
MaxHint == 2     \* nonces named by error bodies and answers are in 0..MaxHint

VARIABLES
  errBody,     \* the error body of the failed POST
  localNonce,  \* this.nonce before the catch block
  queried,     \* what getAccount would answer: a nonce, or NoNonce (failed)
  syncedNonce, \* this.nonce after the catch block, NoNonce before it ran
  fetchCalled  \* the fallback query was made

recVars == <<errBody, localNonce, queried, syncedNonce, fetchCalled>>

Hints == {NoNonce} \cup 0..MaxHint

InitRecover ==
  /\ errBody \in { ErrBody(i, d, w, v) : i \in Hints, d \in Hints, w \in BOOLEAN, v \in BOOLEAN }
  /\ localNonce \in 0..MaxHint
  /\ queried \in Hints
  /\ syncedNonce = NoNonce
  /\ fetchCalled = FALSE

IdleRecover ==
  /\ errBody = NoErr
  /\ localNonce = 0
  /\ queried = NoNonce
  /\ syncedNonce = NoNonce
  /\ fetchCalled = FALSE

\* lines 316-338
SyncNonce ==
  /\ syncedNonce = NoNonce
  /\ IF NonceSynced(errBody)
       THEN /\ syncedNonce' = RecoverFromBody(localNonce, errBody)
            /\ fetchCalled' = FALSE
       ELSE /\ syncedNonce' = FetchNonce(localNonce, queried)
            /\ fetchCalled' = TRUE
  /\ UNCHANGED <<errBody, localNonce, queried>>

RecoverNext == SyncNonce

\* C23: after a failed submission the local nonce is the value of the
\* increment event if the body has one (whatever else it has); otherwise the
\* database hint if it has one; otherwise the venue is queried and the nonce
\* is the answer, or unchanged when the query fails.
C23_RecoveryPriority ==
  syncedNonce # NoNonce =>
    IF errBody.inc # NoNonce THEN syncedNonce = errBody.inc /\ ~fetchCalled
    ELSE IF errBody.db # NoNonce THEN syncedNonce = errBody.db /\ ~fetchCalled
    ELSE /\ fetchCalled
         /\ syncedNonce = IF queried # NoNonce THEN queried ELSE localNonce

\* A body with both patterns, naming different nonces: the event wins.
C23_Witness ==
  /\ errBody.inc # NoNonce
  /\ errBody.db # NoNonce
  /\ errBody.db # errBody.inc
  /\ errBody.db # localNonce
  /\ syncedNonce = errBody.inc

(***************************************************************************)
(* Fill detection: OrderManager (src/unnamed/part_001, 203-449) as wired   *)
(* at start-up by src/src/index.ts 352-357: the constructor registers the  *)
(* 'orders' listener, subscribeOrders() asks the venue for the push feed,  *)
(* seedFillTracker() is awaited market by market, startPolling() follows.  *)
(* The push feed is therefore live while the seeding queries are awaited.  *)
(***************************************************************************)
MaxQty == 2      \* cumulative filled quantities are in 0..MaxQty

\* The windows of the two getOrders queries (count: 50 and count: 20),
\* scaled to the modelled book: the most recent order of a market is inside
\* both windows, an older one outside.
SeedCount == 1
PollCount == 1

Undefined == 0 - 2     \* a field the venue left out of a pushed order
Qty == 0..MaxQty
SeedMarkets == <<"m1", "m2">>            \* requestedMarkets, in seeding order
Orders == {"o1", "o2"}
\* The account's orders on a market, most recent first (direction: 'desc').
OrdersDesc(m) == IF m = "m1" THEN <<"o2", "o1">> ELSE << >>

VARIABLES
  \* ---- the venue
  hist,               \* per order: the cumulative filled quantities it has held so far
  \* ---- OrderManager
  previousFilledQty,  \* this.previousFilledQty: order id -> last observed cumulative
  seedIdx,            \* markets whose seeding query has been processed
  \* ---- history
  fills,              \* per order: the 'fill' events emitted, [sizeBase, cum, live]
  maxObs,             \* per order: largest cumulative reported by a processed fill update
  baseline,           \* per order: the quantity seeding stored for it (0: none)
  sameFed             \* per order: a live update reported exactly the seeded quantity

fillVars == <<hist, previousFilledQty, seedIdx, fills, maxObs, baseline, sameFed>>

Max(S) == CHOOSE x \in S : \A y \in S : y <= x
Min(S) == CHOOSE x \in S : \A y \in S : x <= y
Filled(o) == Max(hist[o])       \* the order's cumulative filled quantity now
FilledAtBoot(o) == Min(hist[o]) \* and when the bot started
SeedDone == seedIdx = Len(SeedMarkets)

\* parseFloat(order.quantity_fill || '0')
QuantityFill(order) == IF order.quantity_fill = Undefined THEN 0 ELSE order.quantity_fill

\* An order as the venue reports it on the push feed: a quantity it has held
\* (messages are delayed, duplicated and reordered), the two flags as sent.
PushedOrders ==
  { [order_id |-> o, quantity_fill |-> q, close |-> c, partially_filled |-> p] :
      o \in Orders, q \in Qty \cup {Undefined}, c \in BOOLEAN, p \in BOOLEAN }
Reportable(order) ==
  IF order.quantity_fill = Undefined THEN 0 \in hist[order.order_id]
  ELSE order.quantity_fill \in hist[order.order_id]

\* mapOrder (rest-client.ts 245-275): quantity_fill: o.quantity_fill || '0'
MapOrder(order) == [order EXCEPT !.quantity_fill = QuantityFill(order)]

RECURSIVE Take(_, _)
Take(s, n) == IF n = 0 \/ s = << >> THEN << >> ELSE <<Head(s)>> \o Take(Tail(s), n - 1)

GetOrdersFailing(m, count, r, failed) == << >>

\* getOrders (rest-client.ts 181-196): the first count orders of the market,
\* each as some pushed-style report r[o] maps, or [] when the request failed.
GetOrders(m, count, r, failed) ==
  IF failed THEN << >>
  ELSE LET ids == Take(OrdersDesc(m), count)
       IN [i \in 1..Len(ids) |-> MapOrder(r[ids[i]])]

MapGet(map, id) == IF id \in DOMAIN map THEN map[id] ELSE 0
MapSet(map, id, v) == [k \in DOMAIN map \cup {id} |-> IF k = id THEN v ELSE map[k]]

\* seedFillTracker, lines 266-271
SeedOrdersSkipped(map, orders) == map

RECURSIVE SeedOrders(_, _)
SeedOrders(map, orders) ==
  IF orders = << >> THEN map
  ELSE LET order == Head(orders)
           filledQty == QuantityFill(order)
       IN SeedOrders(IF filledQty > 0 THEN MapSet(map, order.order_id, filledQty) ELSE map,
                     Tail(orders))

IsFillUpdateClosedOnly(order) == order.close = TRUE

\* lines 372-375
IsFillUpdate(order) == order.close = TRUE \/ order.partially_filled = TRUE

\* handleOrderUpdates, lines 370-413: the map after the batch and the
\* events emitted, in order.
RECURSIVE HandleOrderUpdates(_, _, _)
HandleOrderUpdates(orders, map, out) ==
  IF orders = << >> THEN [map |-> map, emitted |-> out]
  ELSE LET order == Head(orders)
           cumulativeFilledQty == QuantityFill(order)
           previousQty == MapGet(map, order.order_id)
           incrementalQty == cumulativeFilledQty - previousQty
       IN IF ~IsFillUpdate(order) THEN HandleOrderUpdates(Tail(orders), map, out)
          ELSE IF cumulativeFilledQty <= 0 THEN HandleOrderUpdates(Tail(orders), map, out)
          ELSE IF incrementalQty <= 0 THEN HandleOrderUpdates(Tail(orders), map, out)
          ELSE HandleOrderUpdates(
                 Tail(orders),
                 MapSet(map, order.order_id, cumulativeFilledQty),
                 Append(out, [orderId |-> order.order_id, sizeBase |-> incrementalQty,
                              cum |-> cumulativeFilledQty]))

RECURSIVE EventsOf(_, _)
EventsOf(o, evs) ==
  IF evs = << >> THEN << >>
  ELSE LET e == Head(evs)
       IN (IF e.orderId = o
           THEN << [sizeBase |-> e.sizeBase, cum |-> e.cum, live |-> SeedDone] >>
           ELSE << >>) \o EventsOf(o, Tail(evs))

Observed(o, orders) ==
  { QuantityFill(orders[i]) : i \in { j \in 1..Len(orders) :
      orders[j].order_id = o /\ IsFillUpdate(orders[j]) /\ QuantityFill(orders[j]) > 0 } }

\* One call of handleOrderUpdates(orders), by the 'orders' listener or by a poll.
Process(orders) ==
  LET r == HandleOrderUpdates(orders, previousFilledQty, << >>)
  IN /\ previousFilledQty' = r.map
     /\ fills' = [o \in Orders |-> fills[o] \o EventsOf(o, r.emitted)]
     /\ maxObs' = [o \in Orders |-> Max({maxObs[o]} \cup Observed(o, orders))]
     /\ sameFed' = [o \in Orders |->
                      sameFed[o] \/ (SeedDone /\ baseline[o] > 0 /\ baseline[o] \in Observed(o, orders))]

InitFill ==
  /\ hist \in [Orders -> {{q} : q \in Qty}]
  /\ previousFilledQty = << >>
  /\ seedIdx = 0
  /\ fills = [o \in Orders |-> << >>]
  /\ maxObs = [o \in Orders |-> 0]
  /\ baseline = [o \in Orders |-> 0]
  /\ sameFed = [o \in Orders |-> FALSE]

\* The venue matches more of an order.
VenueFill ==
  \E o \in Orders, q \in Qty :
    /\ q > Filled(o)
    /\ hist' = [hist EXCEPT ![o] = @ \cup {q}]
    /\ UNCHANGED <<previousFilledQty, seedIdx, fills, maxObs, baseline, sameFed>>

\* wsClient 'orders' -> handleOrderUpdates(msg.orders), lines 242-246
PushUpdate ==
  \E order \in PushedOrders :
    /\ Reportable(order)
    /\ Process(<<order>>)
    /\ UNCHANGED <<hist, seedIdx, baseline>>

\* The quantities a query can report for the orders in S: for each order one
\* it has held (the answer is processed some time after the venue produced
\* it); 0 stands for the orders that are not asked about.
Snapshots(S) ==
  { [o \in Orders |-> IF o \in S THEN g[o] ELSE 0] :
      g \in { f \in [S -> Qty] : \A o \in S : f[o] \in hist[o] } }
Window(m, count) == { Take(OrdersDesc(m), count)[i] : i \in 1..Len(Take(OrdersDesc(m), count)) }
Report(qs, cs, ps) ==
  [o \in Orders |-> [order_id |-> o, quantity_fill |-> qs[o], close |-> cs, partially_filled |-> ps]]

\* seedFillTracker, lines 257-276: the answer to the query for the next market.
SeedMarket ==
  /\ ~SeedDone
  /\ \E qs \in Snapshots(Window(SeedMarkets[seedIdx + 1], SeedCount)), failed \in BOOLEAN :
       LET m == SeedMarkets[seedIdx + 1]
           orders == GetOrders(m, SeedCount, Report(qs, FALSE, FALSE), failed)
           got == { orders[i].order_id : i \in { j \in 1..Len(orders) : QuantityFill(orders[j]) > 0 } }
       IN /\ previousFilledQty' = SeedOrders(previousFilledQty, orders)
          /\ seedIdx' = seedIdx + 1
          /\ baseline' = [o \in Orders |-> IF o \in got THEN qs[o] ELSE baseline[o]]
  /\ UNCHANGED <<hist, fills, maxObs, sameFed>>

\* startPolling, lines 416-436: one firing of a market's interval, answered.
PollMarket ==
  /\ SeedDone
  /\ \E i \in 1..Len(SeedMarkets), failed \in BOOLEAN :
     \E qs \in Snapshots(Window(SeedMarkets[i], PollCount)) :
     \E c \in IF failed \/ Window(SeedMarkets[i], PollCount) = {} THEN {FALSE} ELSE BOOLEAN :
     \E p \in IF failed \/ Window(SeedMarkets[i], PollCount) = {} THEN {FALSE} ELSE BOOLEAN :
       LET orders == GetOrders(SeedMarkets[i], PollCount, Report(qs, c, p), failed)
       IN IF Len(orders) > 0
          THEN Process(orders)
          ELSE UNCHANGED <<previousFilledQty, fills, maxObs, sameFed>>
  /\ UNCHANGED <<hist, seedIdx, baseline>>

FillNext == VenueFill \/ PushUpdate \/ SeedMarket \/ PollMarket

\* The push feed stalled without closing (ws-client.ts 61-69 reacts only to
\* 'close' and 'error'): no 'orders' message arrives, start-up and the
\* polling intervals go on.
PollNext == VenueFill \/ SeedMarket \/ PollMarket

\* The firing of market i's interval (a step of PollMarket) whose request the
\* venue answers with the present state of the orders in the window, flagged
\* as fills.
PollAnswered(i) ==
  LET w == Window(SeedMarkets[i], PollCount)
      qs == [o \in Orders |-> IF o \in w THEN Filled(o) ELSE 0]
      orders == GetOrders(SeedMarkets[i], PollCount, Report(qs, TRUE, TRUE), FALSE)
  IN /\ SeedDone
     /\ Len(orders) > 0
     /\ Process(orders)
     /\ UNCHANGED <<hist, seedIdx, baseline>>

(***************************************************************************)
(* Claims about fill detection (checked under SpecFill).                   *)
(***************************************************************************)
RECURSIVE SumSizes(_)
SumSizes(evs) == IF evs = << >> THEN 0 ELSE Head(evs).sizeBase + SumSizes(Tail(evs))

LiveFills(o) == SelectSeq(fills[o], LAMBDA e : e.live)

\* C6: an order update (order id, cumulative filled quantity) fed to fill
\* detection more than once, by push, by poll or by both, emits one fill
\* event in total: no two fill events of an order carry the same cumulative
\* quantity.
C6_OneEventPerUpdate ==
  \A o \in Orders : \A i, j \in DOMAIN fills[o] :
    fills[o][i].cum = fills[o][j].cum => i = j

\* C7: once seeding has run, the sizes of the fill events emitted for an
\* order add up to the largest cumulative quantity a fill update reported
\* for it minus its seeded baseline (nothing when no update went beyond the
\* baseline).
C7_SumIsLargestMinusBaseline ==
  SeedDone =>
    \A o \in Orders :
      SumSizes(fills[o]) = Max({maxObs[o], baseline[o]}) - baseline[o]

\* C8 (as stated): after seeding, for every order that already had a
\* positive cumulative filled quantity (it had one when the bot started),
\* no update is taken for a fill of the whole cumulative quantity: every
\* fill event emitted for it carries less than the cumulative it reports.
C8_EveryFilledOrderSeeded ==
  SeedDone =>
    \A o \in Orders : FilledAtBoot(o) > 0 =>
      \A i \in DOMAIN fills[o] :
        fills[o][i].live => fills[o][i].sizeBase < fills[o][i].cum

\* C8 (amended): after seeding, for every order the seeding query returned
\* with a positive cumulative filled quantity, no update reporting that
\* quantity (or less) emits a fill event, every later fill event carries
\* only an increment beyond the seeded quantity, and the increments add up
\* to at most what was reported beyond it.
C8_SeededOrdersEmitOnlyIncrement ==
  SeedDone =>
    \A o \in Orders : baseline[o] > 0 =>
      /\ \A i \in DOMAIN fills[o] :
           fills[o][i].live =>
             /\ fills[o][i].cum > baseline[o]
             /\ fills[o][i].sizeBase <= fills[o][i].cum - baseline[o]
      /\ SumSizes(LiveFills(o)) <= Max({maxObs[o], baseline[o]}) - baseline[o]

C8_Witness ==
  /\ SeedDone
  /\ \E o \in Orders :
       /\ baseline[o] > 0
       /\ sameFed[o]
       /\ \E i \in DOMAIN fills[o] :
            /\ fills[o][i].live
            /\ fills[o][i].cum > baseline[o]
            /\ fills[o][i].sizeBase < fills[o][i].cum

(***************************************************************************)
(* Claims about polling with a stalled push feed (checked under SpecPoll). *)
(***************************************************************************)
PolledOrders == UNION { Window(SeedMarkets[i], PollCount) : i \in 1..Len(SeedMarkets) }

\* The venue has filled order o up to q and the bot has not recorded it.
Undetected(o, q) == SeedDone /\ q \in hist[o] /\ q > MapGet(previousFilledQty, o)
\* A fill event of order o covers the cumulative quantity q.
Emitted(o, q) == \E i \in DOMAIN fills[o] : fills[o][i].live /\ fills[o][i].cum >= q

\* C20 (as stated): with the push feed delivering nothing, every fill of an
\* order at the venue is eventually followed by a fill event for that order,
\* emitted by the polling interval of its market.
C20_FilledOrderEventuallyEmitted ==
  \A o \in Orders, q \in Qty : Undetected(o, q) ~> Emitted(o, q)

\* C20 (amended): with the push feed delivering nothing, every fill that
\* happens after seeding to an order inside the polling window of its market
\* (its count most recent orders) is eventually followed by a fill event
\* covering it, provided the venue keeps answering the polling requests.
C20_PolledOrderEventuallyEmitted ==
  \A o \in PolledOrders, q \in Qty : Undetected(o, q) ~> Emitted(o, q)

\* C26: seeding completes before any order update is processed: every fill
\* event is emitted after seeding has completed (when the listeners of fill
\* events are registered), none while it is in progress.
C26_NoFillBeforeSeeded ==
  \A o \in Orders : \A i \in DOMAIN fills[o] : fills[o][i].live

\* C25: in every state of the tracker, an order update fed to
\* handleOrderUpdates emits a fill event if and only if it has close or
\* partially_filled set and its cumulative filled quantity is greater than
\* the last-observed quantity of its order; otherwise nothing is emitted and
\* the last-observed map is unchanged.  No update lowers a last-observed
\* quantity.
C25_EmitsIffFlaggedIncrease ==
  \A order \in PushedOrders :
    LET id == order.order_id
        cum == IF order.quantity_fill = Undefined THEN 0 ELSE order.quantity_fill
        new == (order.close \/ order.partially_filled) /\ cum > MapGet(previousFilledQty, id)
        r == HandleOrderUpdates(<<order>>, previousFilledQty, << >>)
    IN /\ new => /\ Len(r.emitted) = 1
                 /\ r.emitted[1].orderId = id
                 /\ r.emitted[1].sizeBase = cum - MapGet(previousFilledQty, id)
                 /\ MapGet(r.map, id) = cum
       /\ ~new => r.emitted = << >> /\ r.map = previousFilledQty
       /\ \A o \in Orders : MapGet(r.map, o) >= MapGet(previousFilledQty, o)

\* An update repeating the seeded quantity was dropped for one order, and an
\* update of a partially filled order was emitted and later followed by a
\* larger one.
C25_Witness ==
  /\ \E o \in Orders : sameFed[o] /\ fills[o] = << >> /\ MapGet(previousFilledQty, o) = baseline[o]
  /\ \E o \in Orders :
       /\ Len(fills[o]) = 2
       /\ fills[o][1].cum < fills[o][2].cum
       /\ MapGet(previousFilledQty, o) = fills[o][2].cum

C20_Witness ==
  \E o \in PolledOrders :
    /\ Filled(o) > FilledAtBoot(o)
    /\ MapGet(previousFilledQty, o) = Filled(o)
    /\ Emitted(o, Filled(o))
    /\ baseline[o] < Filled(o)

(***************************************************************************)
(* The cycle scheduler: TradingEngine (src/unnamed/part_001, 30-201).      *)
(* Time is counted in units of 1000 ms.  A loop is a pending setTimeout    *)
(* or a cycle in progress; stop() clears only the timer this.schedulerTimer *)
(* refers to, so a stop/start during a cycle leaves two loops.             *)
(***************************************************************************)
MaxTime == 1      \* the clock runs over 0..MaxTime
MaxLoops == 1     \* pending timers plus cycles in progress (one more under SpecRestart)
IdleDelay == 1    \* the 1000 ms of line 136
\* config.timing of the strategies, in the same unit
Timing == [cycleIntervalMinMs |-> 1, cycleIntervalMaxMs |-> 2]

VARIABLES
  now,            \* Date.now()
  running,        \* this.running
  schedules,      \* this.schedules, in insertion order: [id, isActive, nextRunAt] and
                  \* doneAt (history): when the schedule's last cycle completed
                  \* failed (history): it ended with an error, when that is observed
  loops           \* per slot: a pending timer ("timer", "idle"), a cycle in progress, or free

schedVars == <<now, running, schedules, loops>>

Slots == DOMAIN loops
NotRun == 0 - 1      \* doneAt of a schedule no cycle has completed for
\* History kept with a loop: wasEarliest is taken when its timer is armed,
\* active and isEarliest when its cycle is dispatched.
FreeSlot == [st |-> "free", id |-> "", fireAt |-> 0, current |-> FALSE,
             startedAt |-> 0, attached |-> FALSE,
             wasEarliest |-> FALSE, active |-> FALSE, isEarliest |-> FALSE]

\* The loops are an unordered collection; the model keeps them in one order.
Bit(b) == IF b THEN 1 ELSE 0
Code(r) ==
  (CASE r.st = "cycle" -> 3 [] r.st = "timer" -> 2 [] r.st = "idle" -> 1 [] OTHER -> 0) * 100000
  + (IF r.id = "" THEN 0 ELSE IF r.id = "m1" THEN 1 ELSE 2) * 10000
  + r.fireAt * 1000 + r.startedAt * 100
  + Bit(r.current) * 16 + Bit(r.attached) * 8 + Bit(r.wasEarliest) * 4
  + Bit(r.active) * 2 + Bit(r.isEarliest)
Canonical(lps) ==
  LET p == CHOOSE q \in Permutations(DOMAIN lps) :
             \A i, j \in DOMAIN lps : i < j => Code(lps[q[i]]) >= Code(lps[q[j]])
  IN [i \in DOMAIN lps |-> lps[p[i]]]

IndexOf(scheds, id) ==
  IF \E i \in 1..Len(scheds) : scheds[i].id = id
  THEN CHOOSE i \in 1..Len(scheds) : scheds[i].id = id
  ELSE 0

\* The active markets with their next-run timestamps.
ActiveSet(scheds) ==
  { <<scheds[i].id, scheds[i].nextRunAt>> : i \in { j \in 1..Len(scheds) : scheds[j].isActive } }

\* id is active in the set and no active market has a smaller timestamp.
IsEarliestIn(id, active) ==
  \E a \in active : a[1] = id /\ \A e \in active : a[2] <= e[2]
\* Another active market has a strictly larger timestamp than id's.
HasLaterIn(id, active) ==
  \E a, b \in active : a[1] = id /\ b[1] # id /\ a[2] < b[2]

Later(a, b) == a > b

\* line 128: schedule.nextRunAt < earliest.nextRunAt
Earlier(a, b) == a < b

\* scheduleNext, lines 122-132: the index of the selected schedule, 0 for none.
RECURSIVE EarliestFrom(_, _, _)
EarliestFrom(scheds, i, earliest) ==
  IF i > Len(scheds) THEN earliest
  ELSE IF ~scheds[i].isActive THEN EarliestFrom(scheds, i + 1, earliest)
  ELSE IF earliest = 0 THEN EarliestFrom(scheds, i + 1, i)
  ELSE IF Earlier(scheds[i].nextRunAt, scheds[earliest].nextRunAt)
       THEN EarliestFrom(scheds, i + 1, i)
       ELSE EarliestFrom(scheds, i + 1, earliest)

\* scheduleNext, lines 118-142, run by the loop in slot s: the loops after it.
ScheduleNext(s, run, scheds, lps) ==
  IF ~run THEN [lps EXCEPT ![s] = FreeSlot]
  ELSE LET e == EarliestFrom(scheds, 1, 0)
           timer == IF e = 0
                    THEN [FreeSlot EXCEPT !.st = "idle", !.fireAt = now + IdleDelay,
                                          !.current = TRUE]
                    ELSE [FreeSlot EXCEPT !.st = "timer", !.id = scheds[e].id,
                                          !.fireAt = IF scheds[e].nextRunAt > now
                                                     THEN scheds[e].nextRunAt ELSE now,
                                          !.current = TRUE,
                                          !.wasEarliest = IsEarliestIn(scheds[e].id, ActiveSet(scheds))]
       IN [t \in Slots |-> IF t = s THEN timer ELSE [lps[t] EXCEPT !.current = FALSE]]

\* A cycle in progress holds the schedule object it read at line 147;
\* replacing or deleting the map entry leaves it writing to the old object.
Detach(lps, id) ==
  [t \in Slots |-> IF lps[t].st = "cycle" /\ lps[t].id = id
                   THEN [lps[t] EXCEPT !.attached = FALSE] ELSE lps[t]]

InitSched ==
  /\ now = 0
  /\ running = FALSE
  /\ schedules = << >>
  /\ loops = [s \in 1..MaxLoops |-> FreeSlot]

\* addMarket, lines 51-58
AddMarket ==
  \E id \in MarketIds, active \in BOOLEAN :
    LET entry == [id |-> id, isActive |-> active, nextRunAt |-> now, doneAt |-> NotRun,
                  failed |-> FALSE]
        i == IndexOf(schedules, id)
    IN /\ schedules' = IF i = 0 THEN Append(schedules, entry)
                       ELSE [schedules EXCEPT ![i] = entry]
       /\ loops' = Canonical(Detach(loops, id))
       /\ UNCHANGED <<now, running>>

\* removeMarket, lines 60-63
RemoveMarket ==
  \E id \in MarketIds :
    /\ IndexOf(schedules, id) # 0
    /\ schedules' = SelectSeq(schedules, LAMBDA e : e.id # id)
    /\ loops' = Canonical(Detach(loops, id))
    /\ UNCHANGED <<now, running>>

\* updateConfig, lines 65-76
UpdateConfig ==
  \E id \in MarketIds, active \in BOOLEAN :
    LET i == IndexOf(schedules, id)
    IN /\ i # 0
       /\ schedules' = [schedules EXCEPT ![i].isActive = active]
       /\ UNCHANGED <<now, running, loops>>

\* start, lines 78-83 (the number of slots caps the loops: a start needs a free one)
EngineStart ==
  /\ ~running
  /\ \E s \in Slots :
       /\ loops[s].st = "free"
       /\ \A t \in Slots : t < s => loops[t].st # "free"
       /\ running' = TRUE
       /\ loops' = Canonical(ScheduleNext(s, TRUE, schedules, loops))
  /\ UNCHANGED <<now, schedules>>

\* stop, lines 87-90: clearTimeout(this.schedulerTimer)
ClearedTimer ==
  Canonical([s \in Slots |-> IF loops[s].st \in {"timer", "idle"} /\ loops[s].current
                             THEN FreeSlot ELSE loops[s]])

\* stop, lines 85-92, called while the engine runs (the pause key)
EngineStop ==
  /\ running
  /\ running' = FALSE
  /\ loops' = ClearedTimer
  /\ UNCHANGED <<now, schedules>>

Tick ==
  /\ now < MaxTime
  /\ now' = now + 1
  /\ UNCHANGED <<running, schedules, loops>>

\* the idle timer of line 136 fires
IdleFire(s) ==
  /\ loops[s].st = "idle"
  /\ now >= loops[s].fireAt
  /\ loops' = Canonical(ScheduleNext(s, running, schedules, loops))
  /\ UNCHANGED <<now, running, schedules>>

\* the timer of line 141 fires: executeMarket, lines 144-151 and the
\* hand-over to the executor at line 168
TimerFire(s) ==
  /\ loops[s].st = "timer"
  /\ now >= loops[s].fireAt
  /\ LET id == loops[s].id
         i == IndexOf(schedules, id)
     IN IF ~running
        THEN loops' = Canonical([loops EXCEPT ![s] = FreeSlot])
        ELSE IF i = 0
        THEN loops' = Canonical(ScheduleNext(s, running, schedules, loops))
        ELSE IF ~schedules[i].isActive
        THEN loops' = Canonical(ScheduleNext(s, running, schedules, loops))
        ELSE loops' = Canonical([loops EXCEPT ![s] =
                         [FreeSlot EXCEPT !.st = "cycle", !.id = id,
                                          !.startedAt = now, !.attached = TRUE,
                                          !.wasEarliest = loops[s].wasEarliest,
                                          !.active = schedules[i].isActive,
                                          !.isEarliest = IsEarliestIn(id, ActiveSet(schedules))]])
  /\ UNCHANGED <<now, running, schedules>>

\* How a cycle ends: execute returns its result ("ok"), execute catches an
\* error and returns a result without nextRunAt (part_002 223-236, "caught"),
\* or the try block of executeMarket throws (lines 174-178, "threw").
Outcomes == {"ok", "caught", "threw"}

CycleBaseAtStart(outcome, startedAt, t) == startedAt

\* line 170, result.nextRunAt || this.calculateNextRun(...), and line 177:
\* the time the randomized interval is added to.
CycleBase(outcome, startedAt, t) == IF outcome = "ok" THEN startedAt ELSE t

\* executeMarket, lines 168-179: the cycle returns or throws.  A failure is
\* written to the history field only when it is observed.
CycleEnds(s, observed) ==
  /\ loops[s].st = "cycle"
  /\ \E outcome \in Outcomes, d \in Timing.cycleIntervalMinMs..Timing.cycleIntervalMaxMs :
       LET i == IndexOf(schedules, loops[s].id)
           base == CycleBase(outcome, loops[s].startedAt, now)
           scheds == IF loops[s].attached /\ i # 0
                     THEN [schedules EXCEPT ![i].nextRunAt = base + d, ![i].doneAt = now,
                                            ![i].failed = observed /\ outcome # "ok"]
                     ELSE schedules
       IN /\ schedules' = scheds
          /\ loops' = Canonical(ScheduleNext(s, running, scheds, loops))
  /\ UNCHANGED <<now, running>>

CycleDone(s) == CycleEnds(s, FALSE)
CycleDoneObserved(s) == CycleEnds(s, TRUE)

SchedSteps ==
  \/ AddMarket
  \/ RemoveMarket
  \/ UpdateConfig
  \/ EngineStart
  \/ EngineStop
  \/ Tick
  \/ \E s \in Slots : IdleFire(s)
  \/ \E s \in Slots : TimerFire(s)

SchedNext == SchedSteps \/ \E s \in Slots : CycleDone(s)

\* The scheduler with the failure of a cycle kept in its schedule.
SchedNextObserved == SchedSteps \/ \E s \in Slots : CycleDoneObserved(s)

(***************************************************************************)
(* Claims about the scheduler (checked under SpecSched).                   *)
(***************************************************************************)
Dispatched == { s \in Slots : loops[s].st = "cycle" }

\* C10 (as stated): whenever a cycle is dispatched, the dispatched market is
\* active and has the smallest next-run timestamp among the markets that
\* are active at that moment.
C10_DispatchedIsEarliestActive ==
  \A s \in Dispatched : loops[s].active /\ loops[s].isEarliest

\* C10 (amended): whenever a cycle is dispatched, the dispatched market is
\* active at that moment, and it had the smallest next-run timestamp among
\* the markets that were active when the scheduler selected it and armed
\* its timer; an inactive market is never dispatched.
C10_DispatchedWasEarliestActive ==
  \A s \in Dispatched : loops[s].active /\ loops[s].wasEarliest

C10_Witness ==
  \E s \in Dispatched :
    /\ loops[s].attached
    /\ loops[s].isEarliest
    /\ HasLaterIn(loops[s].id, ActiveSet(schedules))

\* C11: after a cycle of a market has completed, the market's next-run
\* timestamp lies within [now + cycleIntervalMinMs, now + cycleIntervalMaxMs],
\* now being the time the cycle completed.
C11_NextRunWithinWindowOfCompletion ==
  \A i \in 1..Len(schedules) :
    schedules[i].doneAt # NotRun =>
      /\ schedules[i].nextRunAt >= schedules[i].doneAt + Timing.cycleIntervalMinMs
      /\ schedules[i].nextRunAt <= schedules[i].doneAt + Timing.cycleIntervalMaxMs

\* The scheduler with room for the loop a stop() and start() during a cycle
\* in progress leaves behind.
InitRestart ==
  /\ now = 0
  /\ running = FALSE
  /\ schedules = << >>
  /\ loops = [s \in 1..(MaxLoops + 1) |-> FreeSlot]

Alive == { s \in Slots : loops[s].st # "free" }

\* C12: at every moment at most one strategy cycle is in progress and at
\* most one scheduler loop (a pending timer or a cycle in progress) is
\* alive, whatever the sequence of start, stop, addMarket, removeMarket,
\* updateConfig and cycle completions.
C12_OneCycleOneLoop ==
  /\ Cardinality(Dispatched) <= 1
  /\ Cardinality(Alive) <= 1

(***************************************************************************)
(* Shutdown: startBot.shutdown (src/src/index.ts, 462-493), running beside *)
(* the scheduler.  The pause key of the dashboard (dashboard.ts, 206-209)  *)
(* calls engine.stop() and engine.start(); nothing disables it while the   *)
(* shutdown is awaiting.                                                   *)
(***************************************************************************)
MaxRequests == 2     \* shutdown requests (quit key, signals) counted up to this

VARIABLES
  shuttingDown,   \* the flag of index.ts line 421
  shutdownPc,     \* where shutdown() is: "idle" (not called), "notify" (awaiting the
                  \* notification, line 468), "cancel" (scheduler stopped, awaiting
                  \* engine.cancelAllOrders, line 476), "closed" (polling timers, push
                  \* connection and session torn down, lines 482-487), "exited"
  requests        \* shutdown requests received (history)

lifeVars == <<shuttingDown, shutdownPc, requests>>

InitLife ==
  /\ shuttingDown = FALSE
  /\ shutdownPc = "idle"
  /\ requests = 0

\* shutdown(), lines 463-468: the quit key or a signal
RequestShutdown ==
  /\ requests < MaxRequests
  /\ requests' = requests + 1
  /\ IF shuttingDown
     THEN UNCHANGED <<shuttingDown, shutdownPc>>
     ELSE shuttingDown' = TRUE /\ shutdownPc' = "notify"
  /\ UNCHANGED schedVars

\* lines 471-476: engine.shutdown(), then the cancels are started
ShutdownStopEngine ==
  /\ shutdownPc = "notify"
  /\ shutdownPc' = "cancel"
  /\ running' = FALSE
  /\ loops' = ClearedTimer
  /\ UNCHANGED <<now, schedules, shuttingDown, requests>>

\* lines 476-487: the cancels have been attempted; orderManager.shutdown(),
\* wsClient.disconnect() and sessionManager.shutdown() follow
ShutdownTearDown ==
  /\ shutdownPc = "cancel"
  /\ shutdownPc' = "closed"
  /\ UNCHANGED <<schedVars, shuttingDown, requests>>

\* lines 488-492: process.exit(0)
ShutdownExit ==
  /\ shutdownPc = "closed"
  /\ shutdownPc' = "exited"
  /\ UNCHANGED <<schedVars, shuttingDown, requests>>

ShutdownNext ==
  \/ RequestShutdown
  \/ ShutdownStopEngine
  \/ ShutdownTearDown
  \/ ShutdownExit

\* The process with its scheduler, until it exits.
LifeNext ==
  /\ shutdownPc # "exited"
  /\ \/ SchedNext /\ UNCHANGED lifeVars
     \/ ShutdownNext

\* a step that dispatches a cycle: one more execute is in progress after it
DispatchStep ==
  Cardinality({ s \in DOMAIN loops' : loops'[s].st = "cycle" }) > Cardinality(Dispatched)

(***************************************************************************)
(* Precision math (src/unnamed/part_000).  Amounts are decimal.js values;  *)
(* the model counts them in units of 0.01.  decimal.js keeps every digit   *)
(* of a value it parses, and rounds the result of an arithmetic operation  *)
(* half-up to its precision, 20 significant digits by default.             *)
(***************************************************************************)
MaxAmount == 99        \* quantities range over 0..MaxAmount units
MaxStep == 50          \* step sizes range over 0..MaxStep units, 0 for none
UnitDigits == 2        \* decimal places of an amount: a unit is 0.01
Precision == 2         \* significant digits of an arithmetic result (20 in decimal.js)

VARIABLES
  quantity,       \* the argument of roundDownToMarketPrecision
  market,         \* its market: [step_size, max_precision]
  rounded,        \* the value returned for quantity
  rerounded       \* the value returned for rounded

mathVars == <<quantity, market, rounded, rerounded>>

RECURSIVE Pow10(_)
Pow10(n) == IF n = 0 THEN 1 ELSE 10 * Pow10(n - 1)

Unit == Pow10(UnitDigits)

\* the number of decimal digits of a natural number, 0 for 0
RECURSIVE Digits(_)
Digits(n) == IF n = 0 THEN 0 ELSE 1 + Digits(n \div 10)

\* An integer count m rounded half-up to Precision significant digits.
RoundSig(m) ==
  IF Digits(m) <= Precision THEN m
  ELSE LET u == Pow10(Digits(m) - Precision)
       IN ((2 * m + u) \div (2 * u)) * u

\* a.div(b).floor(): the quotient rounded half-up to Precision significant
\* digits, then its integer part.
DivFloor(a, b) ==
  LET n == Digits(a \div b)
  IN IF n >= Precision
     THEN LET u == Pow10(n - Precision)
          IN ((2 * a + b * u) \div (2 * b * u)) * u
     ELSE LET sc == Pow10(Precision - n)
          IN ((2 * a * sc + b) \div (2 * b)) \div sc

\* roundDownToMarketPrecision, lines 8-19 (q and the result in units)
RoundDownToMarketPrecision(q, mkt) ==
  IF mkt.step_size # 0
  THEN RoundSig(DivFloor(q, mkt.step_size) * mkt.step_size)
  ELSE LET multiplier == Pow10(mkt.max_precision)
       IN (RoundSig(q * multiplier) \div Unit) * (Unit \div multiplier)

InitMath ==
  /\ quantity \in 0..MaxAmount
  /\ market \in [step_size : 0..MaxStep, max_precision : 0..UnitDigits]
  /\ rounded = Undefined
  /\ rerounded = Undefined

IdleMath ==
  /\ quantity = 0
  /\ market = [step_size |-> 0, max_precision |-> 0]
  /\ rounded = Undefined
  /\ rerounded = Undefined

RoundQuantity ==
  /\ rounded = Undefined
  /\ rounded' = RoundDownToMarketPrecision(quantity, market)
  /\ UNCHANGED <<quantity, market, rerounded>>

RoundAgain ==
  /\ rounded # Undefined
  /\ rerounded = Undefined
  /\ rerounded' = RoundDownToMarketPrecision(rounded, market)
  /\ UNCHANGED <<quantity, market, rounded>>

MathNext == RoundQuantity \/ RoundAgain

\* C16: for every non-negative quantity and every market step size,
\* roundDownToMarketPrecision returns the largest multiple of the step size
\* that does not exceed the quantity, and rounding the returned quantity
\* again returns it unchanged.
C16_LargestMultipleIdempotent ==
  (rounded # Undefined /\ market.step_size # 0) =>
     /\ rounded % market.step_size = 0
     /\ rounded <= quantity
     /\ quantity < rounded + market.step_size
     /\ rerounded # Undefined => rerounded = rounded

(***************************************************************************)
(* One cycle of the strategy executor: StrategyExecutor.execute            *)
(* (src/unnamed/part_002).  Quote amounts (prices, notionals) are counted  *)
(* in units of 10^-QuoteDecimals, base quantities in units of 0.01.  A     *)
(* field of the configuration that one step only reads is drawn where it   *)
(* is read; the order size (calculateOrderSize) and the prices             *)
(* (calculatePrices) are inputs of the placement steps.                    *)
(***************************************************************************)
QuoteDecimals == 1            \* market.quote.decimals
DefaultReferenceUsd == 50     \* the 5 of line 105, in units: minOrderSizeUsd || 5
NoLiquiditySpread == 999      \* the spread reported for a book that cannot fill, line 861
PercentDen == 100             \* percent / 100, lines 273, 675

AvgBuyPrices == {0, 50}             \* config.averageBuyPrice, 0 for not tracked
MinOrderSizes == {0, 100}           \* config.positionSizing.minOrderSizeUsd
OrderTypes == {"Spot", "Market"}    \* config.orderConfig.orderType
StopLossPercents == {0, 18, 50}     \* config.riskManagement.stopLossPercent
TakeProfitPercents == {0, 2}        \* config.riskManagement.takeProfitPercent
MaxSpreadPercents == {0, 3, 5, 1000}  \* config.orderConfig.maxSpreadPercent
TickerPrices == {24, 25, 26, 40, 41, 42}   \* ticker.last_price
SellPrices == {50, 51, 52}          \* prices.sellPrice
BaseBalances == {0, 5, 150}         \* balances.base.unlocked
OrderSizes == {0, 150}              \* calculateOrderSize: quantity, 0 for none
BidPrices == {39, 40}               \* prices of the book's bid levels
AskPrices == {41, 42}               \* prices of the book's ask levels
LevelQuantities == {0, 1, 2}         \* quantities of the book's levels, in whole base units
NoTicker == 0                        \* getTicker returned null

VARIABLES
  phase,          \* the step of execute that runs next, "done" after it returned
  cfg,            \* config: [averageBuyPrice, minOrderSizeUsd, orderType]
  mkt,            \* market: [step_size, max_precision, tick_size, quote_max_precision]
  last,           \* what the last step read (history); 0 for what it did not read
  ops,            \* the calls made on the order manager, in order
  result          \* the StrategyExecutionResult: [executed, triggered, skipReason]

execVars == <<phase, cfg, mkt, last, ops, result>>

NoResult == [executed |-> FALSE, triggered |-> FALSE, skipReason |-> ""]
CancelAllOp == [op |-> "cancelAll", side |-> "", type |-> "", price |-> 0, quantity |-> 0]
PlaceOp(side, type, price, qty) ==
  [op |-> "place", side |-> side, type |-> type, price |-> price, quantity |-> qty]

\* scaleUpAndTruncateToInt, part_000 lines 24-48, for an amount in units
ScaleUpAndTruncateToInt(amount, m) ==
  IF m.tick_size # 0
  THEN RoundSig(DivFloor(amount, m.tick_size) * m.tick_size)
  ELSE LET truncateFactor == Pow10(QuoteDecimals - m.quote_max_precision)
       IN IF truncateFactor <= 1 THEN amount
          ELSE RoundSig(DivFloor(amount, truncateFactor) * truncateFactor)

\* How the double 1 - percent / 100 of line 273 compares with the exact
\* value: 1 - 0.18 is 0.8200000000000001, 1 - 0.5 is 0.5.
SubError(percent) == IF percent = 18 THEN 1 ELSE 0

\* line 275: currentPrice.gte(stopLossThreshold) does not hold
BelowStopLoss(price, avg, percent) ==
  \/ price * PercentDen < avg * (PercentDen - percent)
  \/ price * PercentDen = avg * (PercentDen - percent) /\ SubError(percent) > 0

\* the notional of qty (units of 0.01) at price is below min, lines 298, 602, 721
BelowMinimum(qty, price, min) == qty * price < min * Unit

InitExec ==
  /\ phase = "sessionLoss"
  /\ cfg \in [averageBuyPrice : AvgBuyPrices, minOrderSizeUsd : MinOrderSizes,
              orderType : OrderTypes]
  /\ mkt \in [step_size : {0, 10}, max_precision : {UnitDigits},
              tick_size : {0, 5}, quote_max_precision : {0, QuoteDecimals}]
  /\ last = [step |-> "none"]
  /\ ops = << >>
  /\ result = NoResult

IdleExec ==
  /\ phase = "done"
  /\ cfg = [averageBuyPrice |-> 0, minOrderSizeUsd |-> 0, orderType |-> "Spot"]
  /\ mkt = [step_size |-> 0, max_precision |-> UnitDigits, tick_size |-> 0,
            quote_max_precision |-> QuoteDecimals]
  /\ last = [step |-> "none"]
  /\ ops = << >>
  /\ result = NoResult

\* execute, lines 71-77: the session-loss cap
CheckSessionLoss ==
  /\ phase = "sessionLoss"
  /\ \E exceeded \in BOOLEAN :
       /\ last' = [step |-> "sessionLoss", exceeded |-> exceeded]
       /\ IF exceeded
          THEN /\ phase' = "done"
               /\ result' = [NoResult EXCEPT !.skipReason = "sessionLoss"]
          ELSE /\ phase' = "stopLoss"
               /\ result' = result
  /\ UNCHANGED <<cfg, mkt, ops>>

\* checkStopLoss, lines 247-359: the calls it makes and whether it triggered
StopLossOps(enabled, percent, price, balance) ==
  IF ~enabled \/ percent = 0 THEN [triggered |-> FALSE, ops |-> << >>, orders |-> 0]
  ELSE IF cfg.averageBuyPrice = 0 THEN [triggered |-> FALSE, ops |-> << >>, orders |-> 0]
  ELSE IF price = NoTicker THEN [triggered |-> FALSE, ops |-> << >>, orders |-> 0]
  ELSE IF ~BelowStopLoss(price, cfg.averageBuyPrice, percent)
       THEN [triggered |-> FALSE, ops |-> << >>, orders |-> 0]
  ELSE IF balance <= 0 THEN [triggered |-> TRUE, ops |-> <<CancelAllOp>>, orders |-> 0]
  ELSE IF BelowMinimum(balance, price, cfg.minOrderSizeUsd)
       THEN [triggered |-> TRUE, ops |-> <<CancelAllOp>>, orders |-> 0]
  ELSE [triggered |-> TRUE,
        ops |-> <<CancelAllOp,
                  PlaceOp("Sell", "Market", ScaleUpAndTruncateToInt(price, mkt),
                          RoundDownToMarketPrecision(balance, mkt))>>,
        orders |-> 1]

\* execute, lines 82-89, with checkStopLoss
CheckStopLoss ==
  /\ phase = "stopLoss"
  /\ \E enabled \in BOOLEAN, percent \in StopLossPercents,
        price \in TickerPrices \cup {NoTicker}, balance \in BaseBalances :
       LET r == StopLossOps(enabled, percent, price, balance)
           priceRead == enabled /\ percent # 0 /\ cfg.averageBuyPrice # 0
       IN /\ last' = [step |-> "stopLoss", enabled |-> enabled, percent |-> percent,
                      price |-> IF priceRead THEN price ELSE NoTicker,
                      balance |-> IF r.triggered THEN balance ELSE 0]
          /\ ops' = ops \o r.ops
          /\ IF r.triggered
             THEN /\ phase' = "done"
                  /\ result' = [NoResult EXCEPT !.triggered = TRUE, !.executed = r.orders > 0]
             ELSE /\ phase' = "gate"
                  /\ result' = result
  /\ UNCHANGED <<cfg, mkt>>

\* The order books getOrderBook can return: levels <<price, quantity>>, bids
\* from the highest price down, asks from the lowest price up.
BidLevels == BidPrices \X LevelQuantities
AskLevels == AskPrices \X LevelQuantities
BidSides == {<< >>} \cup { <<a>> : a \in BidLevels }
            \cup { p \in BidLevels \X BidLevels : p[2][1] < p[1][1] }
AskSides == {<< >>} \cup { <<a>> : a \in AskLevels }
            \cup { p \in AskLevels \X AskLevels : p[2][1] > p[1][1] }
Books == [present : {TRUE}, bids : BidSides, asks : AskSides]
NoBook == [present |-> FALSE, bids |-> << >>, asks |-> << >>]

\* calculateVWAP, lines 788-822.  Quantities are multiplied by scale, the
\* denominator of the order size; filled = 0 stands for null.
RECURSIVE WalkLevels(_, _, _, _, _, _)
WalkLevels(levels, i, remainingSize, totalCost, totalFilled, scale) ==
  IF i > Len(levels) \/ remainingSize <= 0
  THEN [remaining |-> remainingSize, cost |-> totalCost, filled |-> totalFilled]
  ELSE LET price == levels[i][1]
           qty == levels[i][2] * scale
           fillSize == Min({remainingSize, qty})
       IN IF qty <= 0 \/ price <= 0
          THEN WalkLevels(levels, i + 1, remainingSize, totalCost, totalFilled, scale)
          ELSE WalkLevels(levels, i + 1, remainingSize - fillSize,
                          totalCost + fillSize * price, totalFilled + fillSize, scale)

NoVWAP == [cost |-> 0, filled |-> 0]
CalculateVWAP(levels, orderSizeBase, scale) ==
  IF Len(levels) = 0 THEN NoVWAP
  ELSE LET w == WalkLevels(levels, 1, orderSizeBase, 0, 0, scale)
       IN IF w.remaining > 0 \/ w.filled <= 0 THEN NoVWAP
          ELSE [cost |-> w.cost, filled |-> w.filled]

\* calculateEffectiveSpread, lines 830-879.  The order size in base units is
\* orderSizeUsd / midPrice = 2 * orderSizeUsd / (bestBid + bestAsk); spread
\* and topOfBookSpread are the fractions num / den, in percent.
CalculateEffectiveSpread(book, orderSizeUsd) ==
  IF Len(book.bids) = 0 \/ Len(book.asks) = 0
  THEN [isNull |-> TRUE, insufficientLiquidity |-> FALSE,
        num |-> 0, den |-> 1, topNum |-> 0, topDen |-> 1]
  ELSE LET bestBid == book.bids[1][1]
           bestAsk == book.asks[1][1]
           scale == bestBid + bestAsk
           orderSizeBase == 2 * orderSizeUsd
           effectiveBid == CalculateVWAP(book.bids, orderSizeBase, scale)
           effectiveAsk == CalculateVWAP(book.asks, orderSizeBase, scale)
       IN IF effectiveBid = NoVWAP \/ effectiveAsk = NoVWAP
          THEN [isNull |-> FALSE, insufficientLiquidity |-> TRUE,
                num |-> NoLiquiditySpread, den |-> 1,
                topNum |-> (bestAsk - bestBid) * 2 * PercentDen, topDen |-> scale]
          ELSE [isNull |-> FALSE, insufficientLiquidity |-> FALSE,
                num |-> (effectiveAsk.cost - effectiveBid.cost) * 2 * PercentDen,
                den |-> orderSizeBase * scale,
                topNum |-> (bestAsk - bestBid) * 2 * PercentDen, topDen |-> scale]

\* execute, lines 104-122: the skip reason of the spread gate, "" to go on
SpreadGate(book, maxSpreadPercent) ==
  IF book.present /\ maxSpreadPercent > 0
  THEN LET referenceOrderSizeUsd == IF cfg.minOrderSizeUsd # 0 THEN cfg.minOrderSizeUsd
                                    ELSE DefaultReferenceUsd
           r == CalculateEffectiveSpread(book, referenceOrderSizeUsd)
       IN IF ~r.isNull /\ r.num > maxSpreadPercent * r.den
          THEN IF r.insufficientLiquidity THEN "insufficientLiquidity"
               ELSE IF r.num * r.topDen * 10 > r.topNum * 11 * r.den THEN "depthSpread"
               ELSE "spread"
          ELSE ""
  ELSE ""

\* execute, lines 94-122: the ticker, the order book and the spread gate
CheckSpread ==
  /\ phase = "gate"
  /\ \E ticker \in BOOLEAN, book \in Books \cup {NoBook}, maxSpreadPercent \in MaxSpreadPercents :
       LET skipReason == SpreadGate(book, maxSpreadPercent)
       IN /\ last' = [step |-> "gate", ticker |-> ticker,
                      book |-> IF ticker THEN book ELSE NoBook,
                      maxSpreadPercent |-> IF ticker /\ book.present THEN maxSpreadPercent ELSE 0]
          /\ IF ~ticker
             THEN /\ phase' = "done"
                  /\ result' = [NoResult EXCEPT !.skipReason = "noTicker"]
             ELSE IF skipReason # ""
             THEN /\ phase' = "done"
                  /\ result' = [NoResult EXCEPT !.skipReason = skipReason]
             ELSE /\ phase' = "buy"
                  /\ result' = result
  /\ UNCHANGED <<cfg, mkt, ops>>

ConfiguredType == IF cfg.orderType = "Spot" THEN "Spot" ELSE "Market"

\* placeBuyOrder, lines 560-660: the order it places, if any
BuyOps(buyPrice, size) ==
  LET quantityRounded == RoundDownToMarketPrecision(size, mkt)
  IN IF size = 0 THEN << >>
     ELSE IF BelowMinimum(quantityRounded, buyPrice, cfg.minOrderSizeUsd) THEN << >>
     ELSE <<PlaceOp("Buy", ConfiguredType, ScaleUpAndTruncateToInt(buyPrice, mkt), quantityRounded)>>

\* execute, lines 133-185: open orders per side, prices, the buy order
PlaceBuy ==
  /\ phase = "buy"
  /\ \E willPlaceBuy \in BOOLEAN, buyPrice \in BidPrices, size \in OrderSizes :
       /\ last' = [step |-> "buy", willPlaceBuy |-> willPlaceBuy]
       /\ ops' = IF willPlaceBuy THEN ops \o BuyOps(buyPrice, size) ELSE ops
  /\ phase' = "sell"
  /\ UNCHANGED <<cfg, mkt, result>>

\* line 683: avgBuyPriceDecimal.mul(1 + takeProfitRate); exact for the
\* average buy prices and take-profit rates of the model
MinProfitablePrice(avg, takeProfitPercent) ==
  (avg * (PercentDen + takeProfitPercent)) \div PercentDen

\* lines 681-689: forceLimitOrder
ForceLimitOrder(onlySellAboveBuyPrice, avg, takeProfitPercent, sellPriceHuman) ==
  /\ onlySellAboveBuyPrice
  /\ avg # 0
  /\ sellPriceHuman * PercentDen < avg * (PercentDen + takeProfitPercent)

\* placeSellOrder, lines 667-777: the order it places, if any
SellOps(onlySellAboveBuyPrice, avg, takeProfitPercent, sellPriceHuman, size) ==
  LET forceLimitOrder == ForceLimitOrder(onlySellAboveBuyPrice, avg, takeProfitPercent, sellPriceHuman)
      adjustedSellPrice == IF forceLimitOrder THEN MinProfitablePrice(avg, takeProfitPercent)
                           ELSE sellPriceHuman
      quantityRounded == RoundDownToMarketPrecision(size, mkt)
  IN IF onlySellAboveBuyPrice /\ avg = 0 THEN << >>
     ELSE IF size = 0 THEN << >>
     ELSE IF BelowMinimum(quantityRounded, adjustedSellPrice, cfg.minOrderSizeUsd) THEN << >>
     ELSE <<PlaceOp("Sell", IF forceLimitOrder THEN "Spot" ELSE ConfiguredType,
                    ScaleUpAndTruncateToInt(adjustedSellPrice, mkt), quantityRounded)>>

\* execute, lines 187-222: the configuration re-read for the sell, the sell
\* order and the result
PlaceSell ==
  /\ phase = "sell"
  /\ \E willPlaceSell \in BOOLEAN, onlySellAboveBuyPrice \in BOOLEAN, db \in AvgBuyPrices,
        takeProfitPercent \in TakeProfitPercents, sellPriceHuman \in SellPrices,
        size \in OrderSizes :
       LET avg == IF db # 0 THEN db ELSE cfg.averageBuyPrice
           placed == IF willPlaceSell
                     THEN SellOps(onlySellAboveBuyPrice, avg, takeProfitPercent, sellPriceHuman, size)
                     ELSE << >>
       IN /\ last' = [step |-> "sell", willPlaceSell |-> willPlaceSell,
                      onlySellAboveBuyPrice |-> onlySellAboveBuyPrice, avg |-> avg,
                      takeProfitPercent |-> takeProfitPercent,
                      sellPriceHuman |-> sellPriceHuman, placed |-> placed]
          /\ ops' = ops \o placed
          /\ result' = [NoResult EXCEPT !.executed = Len(ops \o placed) > 0]
  /\ phase' = "done"
  /\ UNCHANGED <<cfg, mkt>>

ExecNext == CheckSessionLoss \/ CheckStopLoss \/ CheckSpread \/ PlaceBuy \/ PlaceSell

(***************************************************************************)
(* Claims about the strategy cycle (checked under SpecExec).               *)
(***************************************************************************)
\* C13: when the profit-floor toggle is on, the average buy price is
\* non-zero and the computed sell price is below
\* avgBuyPrice * (1 + takeProfitPercent / 100), the sell that is placed is
\* a limit (Spot) order priced at that floor, whatever order type is
\* configured.
C13_ForcedSellIsLimitAtFloor ==
  ( /\ last.step = "sell"
    /\ last.onlySellAboveBuyPrice
    /\ last.avg # 0
    /\ last.sellPriceHuman * PercentDen < last.avg * (PercentDen + last.takeProfitPercent)
    /\ last.placed # << >> ) =>
       /\ last.placed[1].side = "Sell"
       /\ last.placed[1].type = "Spot"
       /\ last.placed[1].price * PercentDen = last.avg * (PercentDen + last.takeProfitPercent)

\* checkStopLoss has run with stop-loss enabled, a cost basis and a price.
StopLossArmed ==
  /\ last.step = "stopLoss"
  /\ last.enabled
  /\ last.percent # 0
  /\ cfg.averageBuyPrice # 0
  /\ last.price # NoTicker

\* C14: with stop-loss enabled and a known cost basis, a current price
\* below avgBuyPrice * (1 - stopLossPercent / 100) makes the cycle first
\* cancel all open orders and then, if the base balance is non-zero and
\* meets the minimum notional, submit a Market sell for the entire base
\* balance, and nothing else; a current price at or above the threshold
\* causes no cancel and no sell.
C14_StopLossExactlyBelowThreshold ==
  StopLossArmed =>
    IF last.price * PercentDen < cfg.averageBuyPrice * (PercentDen - last.percent)
    THEN /\ phase = "done"
         /\ Len(ops) >= 1
         /\ ops[1] = CancelAllOp
         /\ IF last.balance > 0 /\ ~BelowMinimum(last.balance, last.price, cfg.minOrderSizeUsd)
            THEN /\ Len(ops) = 2
                 /\ ops[2].op = "place" /\ ops[2].side = "Sell" /\ ops[2].type = "Market"
                 /\ ops[2].quantity <= last.balance
                 /\ last.balance - ops[2].quantity < Max({mkt.step_size, 1})
            ELSE Len(ops) = 1
    ELSE /\ ops = << >>
         /\ phase = "gate"

\* The quantity a side of the book offers, and whether both sides can fill
\* an order of orderSizeUsd at the mid price.
RECURSIVE Depth(_, _)
Depth(levels, i) ==
  IF i > Len(levels) THEN 0
  ELSE (IF levels[i][1] > 0 /\ levels[i][2] > 0 THEN levels[i][2] ELSE 0) + Depth(levels, i + 1)
CanFill(book, orderSizeUsd) ==
  /\ Len(book.bids) > 0
  /\ Len(book.asks) > 0
  /\ Depth(book.bids, 1) * (book.bids[1][1] + book.asks[1][1]) >= 2 * orderSizeUsd
  /\ Depth(book.asks, 1) * (book.bids[1][1] + book.asks[1][1]) >= 2 * orderSizeUsd
ReferenceSize == IF cfg.minOrderSizeUsd # 0 THEN cfg.minOrderSizeUsd ELSE DefaultReferenceUsd

\* C15: with a maximum spread configured and an order book available, a
\* book whose depth on either side cannot fill the reference order size is
\* rejected with the insufficient-liquidity skip reason, and a book that
\* can fill it is rejected, with a spread skip reason, exactly when its
\* volume-weighted effective spread exceeds the configured maximum.
C15_SpreadGateClassifies ==
  ( /\ last.step = "gate"
    /\ last.ticker
    /\ last.book.present
    /\ last.maxSpreadPercent > 0 ) =>
       IF ~CanFill(last.book, ReferenceSize)
       THEN phase = "done" /\ result.skipReason = "insufficientLiquidity"
       ELSE LET r == CalculateEffectiveSpread(last.book, ReferenceSize)
            IN IF r.num > last.maxSpreadPercent * r.den
               THEN phase = "done" /\ result.skipReason \in {"spread", "depthSpread"}
               ELSE phase = "buy" /\ result.skipReason = ""

\* C32: every result of a cycle that is not executed carries a reason, a
\* non-empty skipReason (the orders of a result that is not executed are
\* empty, lines 84 and 218, so no failed order can carry it).
C32_NotExecutedCarriesReason ==
  (phase = "done" /\ ~result.executed) => result.skipReason # ""

\* C35: with the profit-floor toggle on, the signed price of a sell that is
\* submitted is not below the tracked average buy price and not below the
\* floor avgBuyPrice * (1 + takeProfitPercent / 100), for every tick size
\* and price precision.
C35_SignedSellPriceAtLeastFloor ==
  ( /\ last.step = "sell"
    /\ last.onlySellAboveBuyPrice
    /\ last.placed # << >> ) =>
       /\ last.placed[1].price >= last.avg
       /\ last.placed[1].price * PercentDen >= last.avg * (PercentDen + last.takeProfitPercent)

(***************************************************************************)
(* OrderManager.cancelAllOrders (src/unnamed/part_001, 336-356) for one    *)
(* market.  The open orders of the market are numbered 1..n, most recent   *)
(* first; the query of getOpenOrders (count: 100) is scaled to OpenCount.  *)
(***************************************************************************)
MaxOpen == 16        \* the market has 0..MaxOpen open orders

BatchSize == 5       \* i += 5, slice(i, i + 5)
OpenCount == 15      \* count: 100 of getOpenOrders, scaled

VARIABLES
  openOrders,   \* what getOpenOrders returned (as ids, in order)
  atVenue,      \* number of orders open at the venue when it was asked
  cancelPc,     \* "idle", "loop" (between two batches), "done"
  batchStart,   \* the loop variable i
  batches,      \* (history) the submissions attempted: [orders, ok]
  marked        \* the orders updateOrderStatus marked 'cancelled'

cancelVars == <<openOrders, atVenue, cancelPc, batchStart, batches, marked>>

InitCancel ==
  /\ openOrders = << >>
  /\ atVenue \in 0..MaxOpen
  /\ cancelPc = "idle"
  /\ batchStart = 0
  /\ batches = << >>
  /\ marked = {}

IdleCancel == InitCancel /\ atVenue = 0

\* getOpenOrders, lines 359-368, over getOrders (rest-client.ts 181-196): at
\* most count orders, or none when the request failed.
GetOpenOrders(n, failed) ==
  IF failed THEN << >>
  ELSE [i \in 1..(IF n < OpenCount THEN n ELSE OpenCount) |-> i]

\* lines 338-339
FetchOpenOrders ==
  /\ cancelPc = "idle"
  /\ \E failed \in BOOLEAN :
       LET orders == GetOpenOrders(atVenue, failed)
       IN /\ openOrders' = orders
          /\ cancelPc' = IF Len(orders) = 0 THEN "done" ELSE "loop"
  /\ UNCHANGED <<atVenue, batchStart, batches, marked>>

\* openOrders.slice(i, i + 5)
Slice(orders, i) ==
  SubSeq(orders, i + 1, IF i + BatchSize < Len(orders) THEN i + BatchSize ELSE Len(orders))

MarkedAfterAlways(ok, batch, done) == done \cup { batch[k] : k \in DOMAIN batch }

\* lines 348-353: the orders of the batch are marked after submitActions
\* resolved; a rejection is logged
MarkedAfter(ok, batch, done) ==
  IF ok THEN done \cup { batch[k] : k \in DOMAIN batch } ELSE done

\* One iteration of the loop of lines 342-355.
CancelBatch ==
  /\ cancelPc = "loop"
  /\ \E ok \in BOOLEAN :
       LET batch == Slice(openOrders, batchStart)
       IN /\ batches' = Append(batches, [orders |-> batch, ok |-> ok])
          /\ marked' = MarkedAfter(ok, batch, marked)
          /\ batchStart' = batchStart + BatchSize
          /\ cancelPc' = IF batchStart + BatchSize < Len(openOrders) THEN "loop" ELSE "done"
  /\ UNCHANGED <<openOrders, atVenue>>

CancelNext == FetchOpenOrders \/ CancelBatch

CeilDiv(n, k) == (n + k - 1) \div k
InBatch(b) == { batches[b].orders[k] : k \in DOMAIN batches[b].orders }

\* C27 (as stated): cancelAllOrders on a market with n open orders attempts
\* exactly ceil(n/5) submissions.
C27_BatchesCoverOpenOrders ==
  cancelPc = "done" => Len(batches) = CeilDiv(atVenue, BatchSize)

\* C27 (amended): cancelAllOrders attempts exactly ceil(m/5) submissions for
\* the m open orders its query returned, each carrying at most 5 cancels,
\* every returned order in exactly one batch; the batches after a failed one
\* are still attempted, and exactly the orders of the batches that succeeded
\* are marked cancelled.
C27_BatchesCoverReturnedOrders ==
  /\ \A b \in DOMAIN batches :
       /\ Len(batches[b].orders) \in 1..BatchSize
       /\ \A c \in DOMAIN batches : b # c => InBatch(b) \cap InBatch(c) = {}
  /\ marked = UNION { InBatch(b) : b \in { c \in DOMAIN batches : batches[c].ok } }
  /\ cancelPc = "done" =>
       /\ Len(batches) = CeilDiv(Len(openOrders), BatchSize)
       /\ UNION { InBatch(b) : b \in DOMAIN batches } = 1..Len(openOrders)

\* A first batch failed, the second and a short third were attempted and
\* succeeded.
C27_Witness ==
  /\ cancelPc = "done"
  /\ Len(batches) = 3
  /\ ~batches[1].ok /\ batches[2].ok /\ batches[3].ok
  /\ Len(batches[3].orders) < BatchSize
  /\ marked # {}

(***************************************************************************)
(* Notifications: NotificationManager (src/src/notifications/index.ts) and *)
(* its two channels, telegram.ts and discord.ts.  Time is counted in units *)
(* of 30 s; Date.now() is far beyond the rate limit when the bot starts.   *)
(***************************************************************************)
MaxClock == 4        \* Date.now() runs over StartTime..StartTime + MaxClock

RateLimitMs == 2     \* rateLimitMs = 60000
StartTime == RateLimitMs
Channels == {"telegram", "discord"}
AlertTypes == {"ERROR", "ORDER_FILLED"}

VARIABLES
  dateNow,         \* Date.now()
  enabled,         \* the channels the configuration enables
  lastAlertTimes,  \* per channel: this.lastAlertTimes, alert type -> time (0: no entry)
  sentAt           \* per channel and type (history): the times alerts were sent at

notifyVars == <<dateNow, enabled, lastAlertTimes, sentAt>>

InitNotify ==
  /\ dateNow = StartTime
  /\ enabled \in SUBSET Channels
  /\ lastAlertTimes = [c \in Channels |-> [t \in AlertTypes |-> 0]]
  /\ sentAt = [c \in Channels |-> [t \in AlertTypes |-> << >>]]

IdleNotify == InitNotify /\ enabled = {}

RateLimitedNever(t, lastTime) == FALSE

\* if (now - lastTime < this.rateLimitMs) return;
RateLimited(t, lastTime) == t - lastTime < RateLimitMs

\* sendAlert of channel c up to its await: whether the alert goes out
Sends(c, type) == c \in enabled /\ ~RateLimited(dateNow, lastAlertTimes[c][type])

\* notify(type, message): sendAlert of every enabled channel, each run up to
\* its await before the next is called.
Notify ==
  \E type \in AlertTypes :
    /\ lastAlertTimes' = [c \in Channels |->
                            IF Sends(c, type)
                            THEN [lastAlertTimes[c] EXCEPT ![type] = dateNow]
                            ELSE lastAlertTimes[c]]
    /\ sentAt' = [c \in Channels |->
                    IF Sends(c, type)
                    THEN [sentAt[c] EXCEPT ![type] = Append(@, dateNow)]
                    ELSE sentAt[c]]
    /\ UNCHANGED <<dateNow, enabled>>

ClockTick ==
  /\ dateNow < StartTime + MaxClock
  /\ dateNow' = dateNow + 1
  /\ UNCHANGED <<enabled, lastAlertTimes, sentAt>>

NotifyNext == Notify \/ ClockTick

\* C21: on every channel, any two alerts of the same type that were sent are
\* at least 60 seconds apart.
C21_OneAlertPerTypePerMinute ==
  \A c \in Channels, type \in AlertTypes :
    \A i, j \in DOMAIN sentAt[c][type] :
      i < j => sentAt[c][type][j] - sentAt[c][type][i] >= RateLimitMs

\* Two alerts of one type went out exactly 60 s apart on a channel, and an
\* alert of the other type between them.
C21_Witness ==
  \E c \in Channels, type \in AlertTypes, other \in AlertTypes :
    /\ other # type
    /\ Len(sentAt[c][type]) = 2
    /\ sentAt[c][type][2] = sentAt[c][type][1] + RateLimitMs
    /\ sentAt[c][other] = << sentAt[c][type][1] + 1 >>

(***************************************************************************)
(* Session renewal: src/src/auth/session-manager.ts, startExpiryMonitor    *)
(* and renewSession, running beside the scheduler of the trading engine.   *)
(* The lifetime of the session is kept as the class the monitor tests:     *)
(* more than a tenth of it left ("valid"), less ("expiring"), none         *)
(* ("expired").                                                            *)
(***************************************************************************)
MaxSigned == 2   \* submissions signed by cycles in one behaviour

VARIABLES
  sessionInfo,     \* class of sessionInfo.expiry against the clock
  sessionSigner,   \* "registered": the venue knows the key; "unregistered": it does not
  markets,         \* this.markets: "stored" by createNewSession, "none" after restoreSession
  sessionInvalid,  \* 'sessionInvalid' emitted by the last renewal
  signedCount      \* submissions signed so far by strategy cycles

renewVars == <<sessionInfo, sessionSigner, markets, sessionInvalid, signedCount>>

\* index.ts 300-342: the session was restored from the database (markets stay
\* empty, line 62) or created (line 141), then the monitor is started.
InitRenew ==
  /\ sessionInfo = "valid"
  /\ sessionSigner = "registered"
  /\ markets \in {"stored", "none"}
  /\ sessionInvalid = FALSE
  /\ signedCount = 0

IdleRenew == InitRenew /\ markets = "stored"

\* The clock passes the renewal threshold, then the expiry.
SessionAges ==
  /\ sessionInfo \in {"valid", "expiring"}
  /\ sessionInfo' = IF sessionInfo = "valid" THEN "expiring" ELSE "expired"
  /\ UNCHANGED <<sessionSigner, markets, sessionInvalid, signedCount>>

\* A tick of the monitor (lines 376-390) that finds the session expired or
\* expiring and calls renewSession, whose createNewSession succeeds.
RenewOk ==
  /\ sessionInfo \in {"expiring", "expired"}
  /\ markets = "stored"
  /\ sessionInfo' = "valid"
  /\ sessionSigner' = "registered"
  /\ sessionInvalid' = FALSE
  /\ UNCHANGED <<markets, signedCount>>

\* The same tick when renewSession fails: no markets stored (lines 394-397,
\* nothing else changes), or createNewSession throws after it has replaced
\* the signer at line 146 (lines 401-405; sessionInfo is assigned only after
\* the venue accepted, line 177).  Nothing listens to 'sessionInvalid'.
RenewFail ==
  /\ sessionInfo \in {"expiring", "expired"}
  /\ sessionInvalid' = TRUE
  /\ sessionSigner' = IF markets = "none" THEN sessionSigner ELSE "unregistered"
  /\ UNCHANGED <<sessionInfo, markets, signedCount>>

\* submitActionsImpl called by the cycle in progress: it signs with whatever
\* signer is set (lines 229-231 and 293).
CycleSigns ==
  /\ Dispatched # {}
  /\ signedCount < MaxSigned
  /\ signedCount' = signedCount + 1
  /\ UNCHANGED <<sessionInfo, sessionSigner, markets, sessionInvalid>>

RenewNext == SessionAges \/ RenewOk \/ RenewFail \/ CycleSigns

RenewOrTrade ==
  \/ SchedNext /\ UNCHANGED renewVars
  \/ RenewNext /\ UNCHANGED schedVars

\* C37: at every moment the key submissions are signed with is the key of
\* the session recorded in sessionInfo, which the venue has accepted; also
\* after a renewal whose creation request failed.
C37_SignerIsRecordedSession ==
  sessionSigner = "registered"

(***************************************************************************)
(* The cost basis across cycles: TradingEngine.executeMarket (part_001     *)
(* 144-179) merges the stored averageBuyPrice into the schedule's config   *)
(* and runs StrategyExecutor.execute (part_002 71-89), whose checkStopLoss *)
(* (part_002 248-360) writes the reset to the stored config only.          *)
(***************************************************************************)
MaxCycles == 3
MaxBuyFills == 2

\* averageBuyPrice is optional (types/api.ts 179): the field is absent
NoAvg == 0 - 1

StoredAverages == AvgBuyPrices \cup {NoAvg}
BuyFillPrices == {40, 60}          \* fill.price of a Buy fill, size 1

VARIABLES
  scheduleConfig,   \* schedule.config of the market, in the engine's memory
  dbConfig,         \* the strategy_config row of the market, parsed
  cyclesRun,        \* executeMarket calls so far
  cycle,            \* what the latest executeMarket call saw and did
  pnlSnapshot       \* the market's snapshot in PnLCalculator.snapshots

basisVars == <<scheduleConfig, dbConfig, cyclesRun, cycle, pnlSnapshot>>

StrategyConfigs ==
  [averageBuyPrice : StoredAverages, stopLossEnabled : BOOLEAN,
   stopLossPercent : StopLossPercents, minOrderSizeUsd : MinOrderSizes]

NoCycle ==
  [ran |-> FALSE, afterTrigger |-> FALSE, startAvg |-> NoAvg,
   triggered |-> FALSE, sold |-> FALSE, reachedSell |-> FALSE, buysSeen |-> 0]

\* emptySnapshot(), pnl-calculator.ts 126-140
EmptySnapshot == [totalBuyValue |-> 0, totalBoughtQty |-> 0]

\* index.ts 388-411: the row is written and the same config is scheduled
InitBasis ==
  /\ scheduleConfig \in StrategyConfigs
  /\ dbConfig = scheduleConfig
  /\ cyclesRun = 0
  /\ cycle = NoCycle
  /\ pnlSnapshot = EmptySnapshot

IdleBasis ==
  /\ scheduleConfig = [averageBuyPrice |-> NoAvg, stopLossEnabled |-> FALSE,
                       stopLossPercent |-> 0, minOrderSizeUsd |-> 0]
  /\ dbConfig = scheduleConfig
  /\ cyclesRun = 0
  /\ cycle = NoCycle
  /\ pnlSnapshot = EmptySnapshot

\* part_001 160: parsed.averageBuyPrice || schedule.config.averageBuyPrice;
\* the string '0' is truthy, an absent field is not
MergeAverage(parsed, current) == IF parsed # NoAvg THEN parsed ELSE current

\* checkStopLoss, part_002 248-360: whether it reports triggered and whether
\* it placed the market sell, after which alone it stores the zero average
StopLossResult(config, price, balance, sellPlaced) ==
  IF ~config.stopLossEnabled \/ config.stopLossPercent = 0
    THEN [triggered |-> FALSE, sold |-> FALSE]
  ELSE IF config.averageBuyPrice \in {NoAvg, 0}
    THEN [triggered |-> FALSE, sold |-> FALSE]
  ELSE IF price = NoTicker THEN [triggered |-> FALSE, sold |-> FALSE]
  ELSE IF ~BelowStopLoss(price, config.averageBuyPrice, config.stopLossPercent)
    THEN [triggered |-> FALSE, sold |-> FALSE]
  ELSE IF balance <= 0 THEN [triggered |-> TRUE, sold |-> FALSE]
  ELSE IF BelowMinimum(balance, price, config.minOrderSizeUsd)
    THEN [triggered |-> TRUE, sold |-> FALSE]
  ELSE [triggered |-> TRUE, sold |-> sellPlaced]

\* executeMarket, part_001 144-179, with execute's first two steps
ExecuteMarketCycle ==
  /\ cyclesRun < MaxCycles
  /\ \E paused \in BOOLEAN, price \in TickerPrices \cup {NoTicker},
        balance \in BaseBalances, sellPlaced \in BOOLEAN :
       LET merged == [scheduleConfig EXCEPT
                        !.averageBuyPrice = MergeAverage(dbConfig.averageBuyPrice, @)]
           r == IF paused THEN [triggered |-> FALSE, sold |-> FALSE]
                ELSE StopLossResult(merged, price, balance, sellPlaced)
       IN /\ scheduleConfig' = merged
          /\ dbConfig' = IF r.sold THEN [merged EXCEPT !.averageBuyPrice = 0]
                         ELSE dbConfig
          /\ cycle' = [ran |-> TRUE, afterTrigger |-> cycle.triggered,
                       startAvg |-> merged.averageBuyPrice,
                       triggered |-> r.triggered, sold |-> r.sold,
                       reachedSell |-> ~paused /\ ~r.triggered,
                       buysSeen |-> pnlSnapshot.totalBoughtQty]
  /\ cyclesRun' = cyclesRun + 1
  /\ UNCHANGED pnlSnapshot

\* updateConfig, part_001 65-76: the new settings keep the schedule's
\* average and are stored
UpdateStrategyConfig ==
  /\ \E stopLoss \in BOOLEAN, percent \in StopLossPercents, min \in MinOrderSizes :
       LET config == [averageBuyPrice |-> scheduleConfig.averageBuyPrice,
                      stopLossEnabled |-> stopLoss, stopLossPercent |-> percent,
                      minOrderSizeUsd |-> min]
       IN /\ config # scheduleConfig \/ config # dbConfig
          /\ scheduleConfig' = config
          /\ dbConfig' = config
  /\ UNCHANGED <<cyclesRun, cycle, pnlSnapshot>>

\* the 'fill' listener of index.ts 368-378 with PnLCalculator.recordFill
\* (pnl-calculator.ts 45-93) for a Buy fill: the snapshot's totals (and with
\* them its averageBuyPrice) change and the trade is inserted
RecordBuyFill ==
  /\ pnlSnapshot.totalBoughtQty < MaxBuyFills
  /\ \E price \in BuyFillPrices :
       pnlSnapshot' = [totalBuyValue |-> pnlSnapshot.totalBuyValue + price,
                       totalBoughtQty |-> pnlSnapshot.totalBoughtQty + 1]
  /\ UNCHANGED <<scheduleConfig, dbConfig, cyclesRun, cycle>>

BasisNext == ExecuteMarketCycle \/ UpdateStrategyConfig \/ RecordBuyFill

\* C29: whenever the stop-loss triggered in a cycle of a market, the average
\* buy price the market's next cycle starts with is zero, and the stop-loss
\* does not trigger again in that cycle.
C29_AverageZeroAfterStopLoss ==
  (cycle.ran /\ cycle.afterTrigger) =>
    /\ cycle.startAvg = 0
    /\ ~cycle.triggered

\* C33: once a Buy fill of the market has been recorded, a cycle that
\* reaches its sell step reads a non-zero average buy price.
C33_SellReadsCostBasisAfterBuyFill ==
  (cycle.ran /\ cycle.reachedSell /\ cycle.buysSeen > 0) =>
    cycle.startAvg \notin {0, NoAvg}

(***************************************************************************)
(* The order-count step of StrategyExecutor.execute (part_002 130-165) and *)
(* the placements it gates (part_002 170-212).                             *)
(***************************************************************************)
MaxVenue == 2

OrderSides == {"Buy", "Sell"}
ConfigSides == {"Buy", "Sell", "Both"}       \* config.orderConfig.side
CreatedAts == 0..2                           \* order.created_at, in minutes
CycleTimes == {2, 3}                         \* Date.now() of the step, in minutes
OpenOrderCaps == 0..2                        \* config.orderManagement.maxOpenOrders
TimeoutMinutes == 0..2                       \* config.riskManagement.orderTimeoutMinutes

VenueOrders == [order_id : 1..MaxVenue, side : OrderSides, created_at : CreatedAts]

VARIABLES
  capConfig,     \* the settings of the cycle's config the step reads
  venueOrders,   \* the market's open orders when the step begins
  cycleNow,      \* Date.now() read by the timeout loop
  capPc,         \* "count", "place" or "done"
  shouldPlace,   \* shouldPlaceBuy and shouldPlaceSell
  cancelCalls,   \* order ids cancelOrder was called with
  placedSides    \* sides placeBuyOrder / placeSellOrder were called for

capVars == <<capConfig, venueOrders, cycleNow, capPc, shouldPlace, cancelCalls, placedSides>>

InitCap ==
  /\ capConfig \in [maxOpenOrders : OpenOrderCaps, side : ConfigSides,
                    orderTimeoutEnabled : BOOLEAN, orderTimeoutMinutes : TimeoutMinutes]
  /\ venueOrders \in {S \in SUBSET VenueOrders :
                        \A a, b \in S : a.order_id = b.order_id => a = b}
  /\ cycleNow \in CycleTimes
  /\ capPc = "count"
  /\ shouldPlace = [Buy |-> TRUE, Sell |-> TRUE]
  /\ cancelCalls = {}
  /\ placedSides = {}

IdleCap ==
  /\ capConfig = [maxOpenOrders |-> 0, side |-> "Both",
                  orderTimeoutEnabled |-> FALSE, orderTimeoutMinutes |-> 0]
  /\ venueOrders = {}
  /\ cycleNow = 2
  /\ capPc = "done"
  /\ shouldPlace = [Buy |-> TRUE, Sell |-> TRUE]
  /\ cancelCalls = {}
  /\ placedSides = {}

\* config.orderConfig.side === side || config.orderConfig.side === 'Both'
TradesSide(config, side) == config.side = side \/ config.side = "Both"

\* lines 141-151: the side is configured and its open orders reach the cap
AtCap(config, returned, side) ==
  /\ TradesSide(config, side)
  /\ Cardinality({o \in returned : o.side = side}) >= config.maxOpenOrders

\* lines 154-165: the orders the timeout loop calls cancelOrder for
TimedOut(config, returned, t) ==
  IF config.orderTimeoutEnabled /\ config.orderTimeoutMinutes > 0
  THEN {o.order_id : o \in {x \in returned : t - x.created_at > config.orderTimeoutMinutes}}
  ELSE {}

\* execute step 6, lines 130-166; getOpenOrders gives no orders when its
\* query failed
CheckOpenOrders ==
  /\ capPc = "count"
  /\ IF capConfig.maxOpenOrders > 0
     THEN \E failed \in BOOLEAN :
            LET returned == IF failed THEN {} ELSE venueOrders
            IN /\ shouldPlace' = [Buy |-> ~AtCap(capConfig, returned, "Buy"),
                                  Sell |-> ~AtCap(capConfig, returned, "Sell")]
               /\ cancelCalls' = TimedOut(capConfig, returned, cycleNow)
     ELSE UNCHANGED <<shouldPlace, cancelCalls>>
  /\ capPc' = "place"
  /\ UNCHANGED <<capConfig, venueOrders, cycleNow, placedSides>>

\* execute steps 7-9, lines 170-212
PlaceOrders ==
  /\ capPc = "place"
  /\ placedSides' = {side \in OrderSides : shouldPlace[side] /\ TradesSide(capConfig, side)}
  /\ capPc' = "done"
  /\ UNCHANGED <<capConfig, venueOrders, cycleNow, shouldPlace, cancelCalls>>

CapNext == CheckOpenOrders \/ PlaceOrders

\* C30: once a cycle has passed the order-count step with order timeouts
\* enabled, cancelOrder has been called for every open order older than the
\* timeout, whatever the cap setting; and a side whose open orders reach a
\* configured cap sees no placement in the cycle.
C30_TimeoutsCancelledCapsHeld ==
  capPc # "count" =>
    /\ (capConfig.orderTimeoutEnabled /\ capConfig.orderTimeoutMinutes > 0) =>
         \A o \in venueOrders :
           cycleNow - o.created_at > capConfig.orderTimeoutMinutes
             => o.order_id \in cancelCalls
    /\ \A side \in OrderSides :
         ( /\ capConfig.maxOpenOrders > 0
           /\ Cardinality({o \in venueOrders : o.side = side}) >= capConfig.maxOpenOrders )
           => side \notin placedSides

(***************************************************************************)
(* Order sizing: StrategyExecutor.calculateOrderSize (part_002 456-547).   *)
(* Prices are counted in units of 0.01; balances, order values and         *)
(* quantities in units of 0.0001, so that a quotient of the amounts below  *)
(* keeps Precision significant digits.                                     *)
(***************************************************************************)
SlippageBufferPercent == 98      \* MARKET_ORDER_SLIPPAGE_BUFFER, 0.98

Fine == Unit * Unit              \* fine units in one whole
NoSize == 0 - 1                  \* calculateOrderSize returned null

SizingPrices == {0, 300, 600, 700}             \* price, 0 for an invalid price
UnlockedBalances == {0, 50, 100, 500}          \* unlocked balance, in 0.01
SizeModes == {"percentageOfBalance", "fixedUsd"}
FixedUsdAmounts == {0, 1, 10}                  \* positionSizing.fixedUsdAmount
BalancePercentages == {50, 100}                \* quote/baseBalancePercentage
MaxOrderSizes == {0, 2}                        \* maxOrderSizeUsd, 0 for not set
SizingSides == {"buy", "sell"}

VARIABLES
  sizing,    \* the arguments of a calculateOrderSize call
  sized      \* the quantity it returned, Undefined before the call

sizeVars == <<sizing, sized>>

\* The quotient num / den rounded half-up to Precision significant digits
\* (a decimal.js result), num / den counted in fine units.
RoundRatio(num, den) ==
  LET n == Digits(num \div den)
      u == IF n > Precision THEN Pow10(n - Precision) ELSE 1
  IN ((2 * num + den * u) \div (2 * den * u)) * u

\* a.div(price), a.mul(price) and a.mul(k / 100) for fine amounts a
DivPrice(a, price) == RoundRatio(a * Unit, price)
MulPrice(a, price) == RoundRatio(a * price, Unit)
MulPercent(a, k) == RoundRatio(a * k, PercentDen)

\* calculateOrderSize, lines 456-547: the quantity returned, in fine units
CalculateOrderSize(ps, unlocked, side, price, isMarketOrder) ==
  LET balance == unlocked * Unit
      effectiveBalance == IF isMarketOrder
                          THEN MulPercent(balance, SlippageBufferPercent)
                          ELSE balance
      capped(v) == IF ps.maxOrderSizeUsd # 0 /\ v > ps.maxOrderSizeUsd * Fine
                   THEN ps.maxOrderSizeUsd * Fine ELSE v
  IN IF price <= 0 THEN NoSize
     ELSE IF ps.sizeMode = "fixedUsd"
     THEN IF ps.fixedUsdAmount <= 0 THEN NoSize
          ELSE LET orderValue == capped(ps.fixedUsdAmount * Fine)
                   size == DivPrice(orderValue, price)
               IN IF side = "buy"
                  THEN IF MulPrice(size, price) > effectiveBalance
                       THEN DivPrice(effectiveBalance, price)
                       ELSE size
                  ELSE IF size > effectiveBalance THEN effectiveBalance
                       ELSE size
     ELSE IF side = "buy"
     THEN LET orderValue == capped(MulPercent(effectiveBalance, ps.balancePercentage))
          IN DivPrice(IF orderValue > effectiveBalance THEN effectiveBalance
                      ELSE orderValue, price)
     ELSE LET wanted == MulPercent(effectiveBalance, ps.balancePercentage)
              value == MulPrice(wanted, price)
              size == IF ps.maxOrderSizeUsd # 0 /\ value > ps.maxOrderSizeUsd * Fine
                          THEN DivPrice(ps.maxOrderSizeUsd * Fine, price)
                          ELSE wanted
          IN IF size > effectiveBalance THEN effectiveBalance ELSE size

InitSize ==
  /\ sizing \in [ps : [sizeMode : SizeModes, fixedUsdAmount : FixedUsdAmounts,
                       balancePercentage : BalancePercentages,
                       maxOrderSizeUsd : MaxOrderSizes],
                 unlocked : UnlockedBalances, side : SizingSides,
                 price : SizingPrices, isMarketOrder : BOOLEAN]
  /\ sized = Undefined

IdleSize ==
  /\ sizing = [ps |-> [sizeMode |-> "fixedUsd", fixedUsdAmount |-> 0,
                       balancePercentage |-> 100, maxOrderSizeUsd |-> 0],
               unlocked |-> 0, side |-> "buy", price |-> 0, isMarketOrder |-> FALSE]
  /\ sized = NoSize

SizeOrder ==
  /\ sized = Undefined
  /\ sized' = CalculateOrderSize(sizing.ps, sizing.unlocked, sizing.side,
                                 sizing.price, sizing.isMarketOrder)
  /\ UNCHANGED sizing

SizeNext == SizeOrder

\* the balance the claim allows the order to use, in fine units: the
\* unlocked balance, less 2% for a market order
Allowed(unlocked, isMarketOrder) ==
  IF isMarketOrder THEN (unlocked * Unit * SlippageBufferPercent) \div PercentDen
  ELSE unlocked * Unit

\* C31: the size calculateOrderSize returns never needs more than the
\* unlocked balance, less the 2% buffer exactly for market orders: a buy's
\* quantity times the price is at most the quote balance, a sell's quantity
\* at most the base balance; and its value is at most maxOrderSizeUsd when
\* that is set.
C31_SizeWithinBalanceAndCap ==
  (sized # Undefined /\ sized # NoSize) =>
    /\ sizing.side = "buy" =>
         sized * sizing.price <= Allowed(sizing.unlocked, sizing.isMarketOrder) * Unit
    /\ sizing.side = "sell" =>
         sized <= Allowed(sizing.unlocked, sizing.isMarketOrder)
    /\ sizing.ps.maxOrderSizeUsd # 0 =>
         sized * sizing.price <= sizing.ps.maxOrderSizeUsd * Fine * Unit

(***************************************************************************)
(* Balances of one market: BalanceTracker (src/src/engine/balance-tracker  *)
(* .ts) beside the balance step of StrategyExecutor.execute (part_002      *)
(* 124-128) and the sizing of its two placements (part_002 582, 702).      *)
(* MarketBalances objects live on a heap: the tracker's map and the cycle  *)
(* hold references to them.                                                *)
(***************************************************************************)
MaxObjects == 3        \* MarketBalances objects created
MaxPushes == 2         \* 'balances' push events handled

NoObj == 0
BalanceAmounts == {1, 2}         \* total_unlocked of an asset
BalanceAssets == {"base", "quote"}

VARIABLES
  balanceHeap,    \* object -> [base, quote], the unlocked amounts it holds
  created,        \* objects created so far
  trackerRef,     \* this.balances.get(marketId): an object or NoObj
  cycleBalances,  \* the object the cycle's const balances refers to, or NoObj
  balPc,          \* the cycle: "idle", "fetching", "buy", "sell", "done"
  obtained,       \* the amounts the cycle obtained at its balance step (history)
  sizedWith,      \* the amounts its placements were sized with (history)
  pushes          \* push events handled

balVars == <<balanceHeap, created, trackerRef, cycleBalances, balPc, obtained, sizedWith, pushes>>

\* emptyBalance(), lines 152-158
EmptyBalance == [base |-> 0, quote |-> 0]

InitBal ==
  /\ balanceHeap = [o \in 1..MaxObjects |-> EmptyBalance]
  /\ created = 0
  /\ trackerRef = NoObj
  /\ cycleBalances = NoObj
  /\ balPc = "idle"
  /\ obtained = EmptyBalance
  /\ sizedWith = EmptyBalance
  /\ pushes = 0

IdleBal ==
  /\ balanceHeap = [o \in 1..MaxObjects |-> EmptyBalance]
  /\ created = 0
  /\ trackerRef = NoObj
  /\ cycleBalances = NoObj
  /\ balPc = "done"
  /\ obtained = EmptyBalance
  /\ sizedWith = EmptyBalance
  /\ pushes = 0

\* execute, lines 127-128: clearCache, then getMarketBalances finds no
\* cached entry and awaits the two REST queries (lines 76-87)
ClearAndFetch ==
  /\ balPc = "idle"
  /\ trackerRef' = NoObj
  /\ balPc' = "fetching"
  /\ UNCHANGED <<balanceHeap, created, cycleBalances, obtained, sizedWith, pushes>>

\* getMarketBalances, lines 89-105: the object built from the responses is
\* stored in the map and the same object is returned to the cycle
FetchDone ==
  /\ balPc = "fetching"
  /\ created < MaxObjects
  /\ \E b \in BalanceAmounts, q \in BalanceAmounts :
       /\ balanceHeap' = [balanceHeap EXCEPT ![created + 1] = [base |-> b, quote |-> q]]
       /\ obtained' = [base |-> b, quote |-> q]
  /\ created' = created + 1
  /\ trackerRef' = created + 1
  /\ cycleBalances' = created + 1
  /\ balPc' = "buy"
  /\ UNCHANGED <<sizedWith, pushes>>

\* placeBuyOrder, line 582: calculateOrderSize reads balances.quote.unlocked;
\* the placement is awaited
SizeBuy ==
  /\ balPc = "buy"
  /\ sizedWith' = [sizedWith EXCEPT !.quote = balanceHeap[cycleBalances].quote]
  /\ balPc' = "sell"
  /\ UNCHANGED <<balanceHeap, created, trackerRef, cycleBalances, obtained, pushes>>

\* placeSellOrder, line 702: calculateOrderSize reads balances.base.unlocked
SizeSell ==
  /\ balPc = "sell"
  /\ sizedWith' = [sizedWith EXCEPT !.base = balanceHeap[cycleBalances].base]
  /\ balPc' = "done"
  /\ UNCHANGED <<balanceHeap, created, trackerRef, cycleBalances, obtained, pushes>>

\* the 'balances' listener, lines 30-61, for one update of one asset: the
\* object of the map, or a new empty one, is assigned the amounts and stored
PushBalance ==
  /\ pushes < MaxPushes
  /\ trackerRef = NoObj => created < MaxObjects
  /\ \E asset \in BalanceAssets, amount \in BalanceAmounts :
       LET existing == IF trackerRef # NoObj THEN trackerRef ELSE created + 1
       IN /\ balanceHeap' = [balanceHeap EXCEPT ![existing][asset] = amount]
          /\ trackerRef' = existing
          /\ created' = IF trackerRef # NoObj THEN created ELSE created + 1
  /\ pushes' = pushes + 1
  /\ UNCHANGED <<cycleBalances, balPc, obtained, sizedWith>>

\* the poll of startPolling, lines 135-142, when the cached entry is
\* missing or older than cacheTtlMs: a new object replaces the entry
PollBalances ==
  /\ created < MaxObjects
  /\ \E b \in BalanceAmounts, q \in BalanceAmounts :
       balanceHeap' = [balanceHeap EXCEPT ![created + 1] = [base |-> b, quote |-> q]]
  /\ created' = created + 1
  /\ trackerRef' = created + 1
  /\ UNCHANGED <<cycleBalances, balPc, obtained, sizedWith, pushes>>

BalNext == ClearAndFetch \/ FetchDone \/ SizeBuy \/ SizeSell \/ PushBalance \/ PollBalances

\* C34: the balances a cycle sizes its buy and its sell with are the ones it
\* obtained at its balance step, whatever pushes and polls arrive while it
\* runs.
C34_CycleSizesWithItsSnapshot ==
  /\ balPc \in {"sell", "done"} => sizedWith.quote = obtained.quote
  /\ balPc = "done" => sizedWith.base = obtained.base

(***************************************************************************)
(* The nonce counter under a renewal: createNewSession (session-manager.ts *)
(* 140-194), called by the expiry monitor's interval callback (373-406)    *)
(* and not through the action queue, beside one queued submitActionsImpl   *)
(* (223-348).                                                              *)
(***************************************************************************)
MaxRaceSubs == 2      \* submissions enqueued in one behaviour
NoRead == 0 - 1       \* the nonce has not been read yet

VARIABLES
  raceNonce,    \* this.nonce
  raceVenue,    \* the nonce the venue expects
  subPc,        \* the submission: "queued", "signing", "posted", "done", "failed"
  subSigned,    \* the nonce in its signed bytes (line 292)
  subParam,     \* the nonce in its payload (line 296)
  subRetry,     \* isRetry
  renPc,        \* the renewal: "idle", "signing", "posted", "fetching", "done", "failed"
  renSigned,    \* the nonce in its signed bytes (line 158)
  renParam,     \* the nonce in sessionParams (line 163)
  submitted     \* submissions enqueued so far

raceVars == <<raceNonce, raceVenue, subPc, subSigned, subParam, subRetry, renPc, renSigned, renParam, submitted>>

\* the counter follows the venue's, or lags it after a failed start-up query
InitRace ==
  /\ raceVenue \in 0..InitNonceMax
  /\ raceNonce \in 0..raceVenue
  /\ subPc = "queued"
  /\ subSigned = NoRead
  /\ subParam = NoRead
  /\ subRetry = FALSE
  /\ renPc = "idle"
  /\ renSigned = NoRead
  /\ renParam = NoRead
  /\ submitted = 1

IdleRace ==
  /\ raceNonce = 0
  /\ raceVenue = 0
  /\ subPc = "done"
  /\ subSigned = NoRead
  /\ subParam = NoRead
  /\ subRetry = FALSE
  /\ renPc = "done"
  /\ renSigned = NoRead
  /\ renParam = NoRead
  /\ submitted = 1

\* submitActions with enqueue, lines 209-221: the next submission starts
\* when the previous one has settled
SubEnqueue ==
  /\ subPc \in {"done", "failed"}
  /\ submitted < MaxRaceSubs
  /\ submitted' = submitted + 1
  /\ subPc' = "queued"
  /\ subRetry' = FALSE
  /\ UNCHANGED <<raceNonce, raceVenue, subSigned, subParam, renPc, renSigned, renParam>>

\* submitActionsImpl, lines 291-293: the bytes to sign take this.nonce, the
\* session signer's signature is awaited
SubSign ==
  /\ subPc = "queued"
  /\ subSigned' = raceNonce
  /\ subPc' = "signing"
  /\ UNCHANGED <<raceNonce, raceVenue, subParam, subRetry, renPc, renSigned, renParam, submitted>>

\* lines 295-307: the payload takes this.nonce and is posted
SubPost ==
  /\ subPc = "signing"
  /\ subParam' = raceNonce
  /\ subPc' = "posted"
  /\ UNCHANGED <<raceNonce, raceVenue, subSigned, subRetry, renPc, renSigned, renParam, submitted>>

\* lines 306-348: the venue accepts the nonce it expects; otherwise the
\* error names the venue's nonce, which is adopted, and the submission is
\* sent once more
SubRespond ==
  /\ subPc = "posted"
  /\ IF subSigned = raceVenue /\ subParam = raceVenue
     THEN /\ raceVenue' = raceVenue + 1
          /\ raceNonce' = raceNonce + 1
          /\ subPc' = "done"
          /\ UNCHANGED subRetry
     ELSE /\ raceNonce' = raceVenue
          /\ subPc' = IF subRetry THEN "failed" ELSE "queued"
          /\ subRetry' = TRUE
          /\ UNCHANGED raceVenue
  /\ UNCHANGED <<subSigned, subParam, renPc, renSigned, renParam, submitted>>

\* the monitor's tick calls renewSession; createNewSession, lines 140-159:
\* the call to sign takes this.nonce, the wallet's signature is awaited
RenSign ==
  /\ renPc = "idle"
  /\ renSigned' = raceNonce
  /\ renPc' = "signing"
  /\ UNCHANGED <<raceNonce, raceVenue, subPc, subSigned, subParam, subRetry, renParam, submitted>>

\* lines 162-171: sessionParams takes this.nonce and is posted
RenPost ==
  /\ renPc = "signing"
  /\ renParam' = raceNonce
  /\ renPc' = "posted"
  /\ UNCHANGED <<raceNonce, raceVenue, subPc, subSigned, subParam, subRetry, renSigned, submitted>>

\* lines 171-172: createSession returns and the nonce is incremented, or it
\* throws and renewSession catches (lines 401-404)
RenRespond ==
  /\ renPc = "posted"
  /\ IF renSigned = raceVenue /\ renParam = raceVenue
     THEN /\ raceVenue' = raceVenue + 1
          /\ raceNonce' = raceNonce + 1
          /\ renPc' = "fetching"
     ELSE /\ renPc' = "failed"
          /\ UNCHANGED <<raceNonce, raceVenue>>
  /\ UNCHANGED <<subPc, subSigned, subParam, subRetry, renSigned, renParam, submitted>>

\* line 175 with fetchNonce, lines 351-360: the venue's nonce is adopted,
\* or the query failed
RenFetch ==
  /\ renPc = "fetching"
  /\ \E fetched \in BOOLEAN :
       raceNonce' = FetchNonce(raceNonce, IF fetched THEN raceVenue ELSE NoNonce)
  /\ renPc' = "done"
  /\ UNCHANGED <<raceVenue, subPc, subSigned, subParam, subRetry, renSigned, renParam, submitted>>

RaceNext == SubEnqueue \/ SubSign \/ SubPost \/ SubRespond \/ RenSign \/ RenPost \/ RenRespond \/ RenFetch

\* the submission / the renewal is between its first read and its last
\* write of the nonce
SubInFlight == subPc \in {"signing", "posted"}
RenInFlight == renPc \in {"signing", "posted", "fetching"}

\* C36: a renewal and a queued submission never overlap on the nonce
\* counter: they are not in flight together, and they are never signed with
\* the same nonce.
C36_RenewalExcludesSubmission ==
  /\ ~(SubInFlight /\ RenInFlight)
  /\ (subSigned # NoRead /\ renSigned # NoRead) => subSigned # renSigned

(***************************************************************************)
(* The cycle scheduler over an unbounded run: src/unnamed/part_001,        *)
(* 118-186, with the engine left running and every market active.  The     *)
(* timestamps are kept relative to Date.now() (turnSchedules[i].nextRunAt  *)
(* is nextRunAt - now, negative when the market is overdue), which leaves  *)
(* the comparison of line 128 and the delay of line 140 as they are.       *)
(***************************************************************************)
MaxCycleAge == 2                    \* a cycle lasts 0..MaxCycleAge units
MaxLag == 3 * MaxCycleAge + 4       \* no market is ever this much overdue (LagNeverReached)

VARIABLES
  turnSchedules,  \* this.schedules: [id, isActive, nextRunAt - now]
  turnLoop        \* the loop: a pending timer with its remaining delay, or a
                  \* cycle in progress with the time since it started

turnVars == <<turnSchedules, turnLoop>>

\* scheduleNext, lines 118-142, while running with an active market: the
\* timer of line 141 for the earliest active market.
TurnScheduleNext(scheds) ==
  LET e == EarliestFrom(scheds, 1, 0)
  IN [st |-> "timer", id |-> scheds[e].id,
      delay |-> IF scheds[e].nextRunAt > 0 THEN scheds[e].nextRunAt ELSE 0,
      age |-> 0]

\* addMarket for each market (nextRunAt = Date.now() of an earlier moment),
\* then start(), lines 78-83
InitTurn ==
  /\ \E a, b, c \in {0 - 1, 0} :
       turnSchedules = << [id |-> "m1", isActive |-> TRUE, nextRunAt |-> a],
                          [id |-> "m2", isActive |-> TRUE, nextRunAt |-> b],
                          [id |-> "m3", isActive |-> TRUE, nextRunAt |-> c] >>
  /\ turnLoop = TurnScheduleNext(turnSchedules)

IdleTurn ==
  /\ turnSchedules = << >>
  /\ turnLoop = [st |-> "free", id |-> "", delay |-> 0, age |-> 0]

\* the timer of line 141 fires: executeMarket, lines 144-168
TurnTimerFire ==
  /\ turnLoop.st = "timer"
  /\ turnLoop.delay = 0
  /\ turnLoop' = [turnLoop EXCEPT !.st = "cycle"]
  /\ UNCHANGED turnSchedules

\* executeMarket, lines 168-180: the cycle returns or throws, the schedule
\* gets its next-run timestamp and the loop is re-armed
TurnCycleDone ==
  /\ turnLoop.st = "cycle"
  /\ \E outcome \in Outcomes, d \in Timing.cycleIntervalMinMs..Timing.cycleIntervalMaxMs :
       LET i == IndexOf(turnSchedules, turnLoop.id)
           base == CycleBase(outcome, 0 - turnLoop.age, 0)
           scheds == [turnSchedules EXCEPT ![i].nextRunAt = base + d]
       IN /\ turnSchedules' = scheds
          /\ turnLoop' = TurnScheduleNext(scheds)

\* One unit of time passes: a due timer fires first, and a cycle ends
\* before it is older than MaxCycleAge.
TurnTick ==
  /\ turnLoop.st = "timer" => turnLoop.delay > 0
  /\ turnLoop.st = "cycle" => turnLoop.age < MaxCycleAge
  /\ \A i \in 1..Len(turnSchedules) : turnSchedules[i].nextRunAt > 0 - MaxLag
  /\ turnSchedules' = [i \in 1..Len(turnSchedules) |->
                         [turnSchedules[i] EXCEPT !.nextRunAt = @ - 1]]
  /\ turnLoop' = IF turnLoop.st = "timer"
                 THEN [turnLoop EXCEPT !.delay = @ - 1]
                 ELSE [turnLoop EXCEPT !.age = @ + 1]

TurnNext == TurnTimerFire \/ TurnCycleDone \/ TurnTick

\* The guard on the lag in TurnTick never holds time back.
LagNeverReached ==
  \A i \in 1..Len(turnSchedules) : turnSchedules[i].nextRunAt > 0 - MaxLag

\* market id has been handed to the executor and its cycle is in progress
TurnDispatched(id) == turnLoop.st = "cycle" /\ turnLoop.id = id

\* C38: while the engine is running and every cycle terminates, each active
\* market is dispatched again and again: none is starved by the others.
C38_EveryMarketDispatchedAgain ==
  /\ []<>TurnDispatched("m1")
  /\ []<>TurnDispatched("m2")
  /\ []<>TurnDispatched("m3")

\* m3 is dispatched after m1 and m2 have completed a cycle each and moved
\* their next-run timestamps into the future
C38_Witness ==
  /\ TurnDispatched("m3")
  /\ turnSchedules[1].nextRunAt > 0
  /\ turnSchedules[2].nextRunAt > 0

(***************************************************************************)
(* Shutdown beside a cycle in flight: startBot.shutdown (src/src/index.ts, *)
(* 462-493), TradingEngine.stop and executeMarket (src/unnamed/part_001,   *)
(* 85-92, 144-180), the placements of StrategyExecutor.execute             *)
(* (src/unnamed/part_002, 177-213) and OrderManager.cancelAllOrders        *)
(* (src/unnamed/part_001, 337-356), for one market.  The venue accepts     *)
(* every submission; a limit order that is placed rests open.              *)
(***************************************************************************)
MaxQuitCycles == 2     \* cycles dispatched before the process exits

VARIABLES
  quitRunning,    \* this.running of the engine
  quitPc,         \* shutdown(): "idle", "stopped" (engine.shutdown() has run, line 471),
                  \* "fetched" (cancelAllOrders holds the open orders, part_001 338),
                  \* "cancelled" (the cancel batches are done), "exited"
  quitLoop,       \* the scheduler loop: "timer", "buy" (execute is before step 8),
                  \* "sell" (before step 9), "done" (execute has returned), "none"
  quitCycle,      \* the number of the cycle dispatched last
  venueOpen,      \* the bot's orders open at the venue: <<cycle, side>>
  toCancel,       \* the open orders cancelAllOrders fetched
  placedLate      \* history: orders submitted after stop() had run

quitVars == <<quitRunning, quitPc, quitLoop, quitCycle, venueOpen, toCancel, placedLate>>

\* start() has armed the timer of the first cycle
InitQuit ==
  /\ quitRunning = TRUE
  /\ quitPc = "idle"
  /\ quitLoop = "timer"
  /\ quitCycle = 0
  /\ venueOpen = {}
  /\ toCancel = {}
  /\ placedLate = {}

IdleQuit ==
  /\ quitRunning = FALSE
  /\ quitPc = "idle"
  /\ quitLoop = "none"
  /\ quitCycle = 0
  /\ venueOpen = {}
  /\ toCancel = {}
  /\ placedLate = {}

\* the process is alive: process.exit ends every callback
QuitAlive == quitPc # "exited"

\* executeMarket, lines 144-168: the timer fires, this.running is read at
\* line 145 and nowhere later in the cycle
QuitDispatch ==
  /\ QuitAlive
  /\ quitLoop = "timer"
  /\ quitRunning
  /\ quitCycle < MaxQuitCycles
  /\ quitCycle' = quitCycle + 1
  /\ quitLoop' = "buy"
  /\ UNCHANGED <<quitRunning, quitPc, venueOpen, toCancel, placedLate>>

\* execute, step 8 or step 9 (part_002 181-186, 191-213): the order is
\* placed or the step is skipped
QuitPlace(side, after) ==
  /\ QuitAlive
  /\ quitLoop = side
  /\ quitLoop' = after
  /\ \E placed \in BOOLEAN :
       IF placed
       THEN /\ venueOpen' = venueOpen \cup {<<quitCycle, side>>}
            /\ placedLate' = IF quitRunning THEN placedLate
                             ELSE placedLate \cup {<<quitCycle, side>>}
       ELSE UNCHANGED <<venueOpen, placedLate>>
  /\ UNCHANGED <<quitRunning, quitPc, quitCycle, toCancel>>

QuitPlaceBuy == QuitPlace("buy", "sell")
QuitPlaceSell == QuitPlace("sell", "done")

\* executeMarket, lines 169-180: the result is stored and scheduleNext
\* (118-142) arms the next timer unless the engine was stopped
QuitCycleDone ==
  /\ QuitAlive
  /\ quitLoop = "done"
  /\ quitLoop' = IF quitRunning THEN "timer" ELSE "none"
  /\ UNCHANGED <<quitRunning, quitPc, quitCycle, venueOpen, toCancel, placedLate>>

\* a resting order is filled at the venue
QuitFill ==
  /\ QuitAlive
  /\ \E o \in venueOpen : venueOpen' = venueOpen \ {o}
  /\ UNCHANGED <<quitRunning, quitPc, quitLoop, quitCycle, toCancel, placedLate>>

\* shutdown(), index.ts 463-471: engine.shutdown() is stop(), part_001
\* 85-92, which clears the pending timer
QuitStop ==
  /\ quitPc = "idle"
  /\ quitPc' = "stopped"
  /\ quitRunning' = FALSE
  /\ quitLoop' = IF quitLoop = "timer" THEN "none" ELSE quitLoop
  /\ UNCHANGED <<quitCycle, venueOpen, toCancel, placedLate>>

\* engine.cancelAllOrders (index.ts 476, part_001 188-196) and
\* OrderManager.cancelAllOrders, line 338: the open orders are fetched
QuitFetchOpen ==
  /\ quitPc = "stopped"
  /\ quitPc' = "fetched"
  /\ toCancel' = venueOpen
  /\ UNCHANGED <<quitRunning, quitLoop, quitCycle, venueOpen, placedLate>>

\* OrderManager.cancelAllOrders, lines 342-355: the fetched orders are cancelled
QuitCancel ==
  /\ quitPc = "fetched"
  /\ quitPc' = "cancelled"
  /\ venueOpen' = venueOpen \ toCancel
  /\ UNCHANGED <<quitRunning, quitLoop, quitCycle, toCancel, placedLate>>

\* index.ts 482-492: the services are shut down and process.exit(0) runs
QuitExit ==
  /\ quitPc = "cancelled"
  /\ quitPc' = "exited"
  /\ UNCHANGED <<quitRunning, quitLoop, quitCycle, venueOpen, toCancel, placedLate>>

QuitNext ==
  \/ QuitDispatch
  \/ QuitPlaceBuy
  \/ QuitPlaceSell
  \/ QuitCycleDone
  \/ QuitFill
  \/ QuitStop
  \/ QuitFetchOpen
  \/ QuitCancel
  \/ QuitExit

\* C39: once shutdown has stopped the scheduler no order is submitted any
\* more, and a completed shutdown leaves none of the bot's orders open.
C39_NoPlacementAfterStop ==
  /\ placedLate = {}
  /\ quitPc = "exited" => venueOpen = {}

(***************************************************************************)
(* The push client: O2WebSocketClient (src/src/api/ws-client.ts).  The     *)
(* socket is the ws library's: a failed handshake or a failure of an open  *)
(* socket emits 'error' and then 'close'; a close by the peer emits        *)
(* 'close' alone.  An EventEmitter with no listener for 'error' throws     *)
(* what it is asked to emit, and an exception no one catches ends the      *)
(* process.                                                                *)
(***************************************************************************)
MaxFailures == 2       \* socket errors and unexpected closes

SubscriptionActions == {"depth", "orders", "balances"}

\* index.ts registers 'depth', 'orders' and 'balances' listeners on the
\* client (market-data.ts 23, part_001 243, balance-tracker.ts 30) and none
\* for 'error'.
ErrorListener == FALSE

VARIABLES
  ws,             \* this.ws: "connecting", "open", "closed" (its 'close' was handled),
                  \* "failed" (its 'error' handler threw), "none" (disconnect() dropped it)
  shouldReconnect,
  reconnectTimers, \* pending setTimeout callbacks of scheduleReconnect
  subscriptions,  \* the actions of this.subscriptions
  resent,         \* the subscriptions sent on the current socket
  processAlive,   \* FALSE once an uncaught exception ended the process
  failures        \* socket errors and unexpected closes so far (history)

pushVars == <<ws, shouldReconnect, reconnectTimers, subscriptions, resent, processAlive, failures>>

\* the constructor, lines 21-30, and connect(), index.ts line 346
InitPush ==
  /\ ws = "connecting"
  /\ shouldReconnect = TRUE
  /\ reconnectTimers = 0
  /\ subscriptions = {}
  /\ resent = {}
  /\ processAlive = TRUE
  /\ failures = 0

IdlePush ==
  /\ ws = "none"
  /\ shouldReconnect = TRUE
  /\ reconnectTimers = 0
  /\ subscriptions = {}
  /\ resent = {}
  /\ processAlive = TRUE
  /\ failures = 0

\* scheduleReconnect, lines 157-169: the pending timers after the call
ScheduleReconnect(should, timers) ==
  IF ~should THEN timers
  ELSE IF timers > 0 THEN timers
  ELSE timers + 1

\* the 'open' handler, lines 41-50: every stored subscription is sent
SocketOpen ==
  /\ processAlive
  /\ ws = "connecting"
  /\ ws' = "open"
  /\ resent' = subscriptions
  /\ UNCHANGED <<shouldReconnect, reconnectTimers, subscriptions, processAlive, failures>>

\* subscribeDepth / subscribeOrders / subscribeBalances, lines 107-141
Subscribe ==
  /\ processAlive
  /\ \E a \in SubscriptionActions :
       /\ subscriptions' = (subscriptions \ {a}) \cup {a}
       /\ resent' = IF ws = "open" THEN resent \cup {a} ELSE resent
  /\ UNCHANGED <<ws, shouldReconnect, reconnectTimers, processAlive, failures>>

\* the 'close' handler, lines 61-65, for a close the peer or the network caused
SocketClose ==
  /\ processAlive
  /\ ws \in {"connecting", "open"}
  /\ failures < MaxFailures
  /\ failures' = failures + 1
  /\ ws' = "closed"
  /\ reconnectTimers' = ScheduleReconnect(shouldReconnect, reconnectTimers)
  /\ UNCHANGED <<shouldReconnect, subscriptions, resent, processAlive>>

\* the 'error' handler, lines 67-69: this.emit('error', err) throws when the
\* client has no 'error' listener, and the socket's 'close' is not emitted;
\* with a listener the 'close' handler runs next
SocketError ==
  /\ processAlive
  /\ ws \in {"connecting", "open"}
  /\ failures < MaxFailures
  /\ failures' = failures + 1
  /\ IF ErrorListener
     THEN /\ ws' = "closed"
          /\ reconnectTimers' = ScheduleReconnect(shouldReconnect, reconnectTimers)
          /\ UNCHANGED processAlive
     ELSE /\ ws' = "failed"
          /\ processAlive' = FALSE
          /\ UNCHANGED reconnectTimers
  /\ UNCHANGED <<shouldReconnect, subscriptions, resent>>

\* the timer callback, lines 160-168: connect(), lines 32-39
ReconnectFire ==
  /\ processAlive
  /\ reconnectTimers > 0
  /\ reconnectTimers' = reconnectTimers - 1
  /\ ws' = "connecting"
  /\ resent' = {}
  /\ UNCHANGED <<shouldReconnect, subscriptions, processAlive, failures>>

\* disconnect(), lines 171-184, called by shutdown() once
Disconnect ==
  /\ processAlive
  /\ shouldReconnect
  /\ shouldReconnect' = FALSE
  /\ reconnectTimers' = 0
  /\ ws' = "none"
  /\ subscriptions' = {}
  /\ resent' = {}
  /\ UNCHANGED <<processAlive, failures>>

PushNext ==
  \/ SocketOpen
  \/ Subscribe
  \/ SocketClose
  \/ SocketError
  \/ ReconnectFire
  \/ Disconnect

\* the socket went down and nothing has replaced it yet
SocketDown == ws \in {"closed", "failed"}

\* C40: at most one reconnect timer is pending; an open connection has been
\* sent every registered subscription; after disconnect() there is no
\* socket and no timer; and after a socket error or an unexpected close a
\* reconnect is eventually attempted unless disconnect() is called.
C40_ReconnectsAndResubscribes ==
  /\ [](reconnectTimers <= 1)
  /\ [](ws = "open" => subscriptions \subseteq resent)
  /\ [](~shouldReconnect => (ws = "none" /\ reconnectTimers = 0))
  /\ (SocketDown /\ shouldReconnect) ~> (ws = "connecting" \/ ~shouldReconnect)

vars == <<sessVars, fillVars, schedVars, lifeVars, mathVars, execVars, renewVars, recVars, notifyVars, cancelVars, basisVars, capVars, sizeVars, balVars, raceVars, turnVars, quitVars, pushVars>>

(***************************************************************************)
(* Claims about steps of the process (checked under SpecLife).             *)
(***************************************************************************)
\* C17: the shutdown sequence first stops the scheduler, after which no new
\* cycle starts, then attempts to cancel all open orders, and only then
\* tears down polling timers, push connection and session; the phases
\* follow one another in this order and a second shutdown request while one
\* is running changes nothing.
C17_ShutdownPhasesInOrder ==
  [][ /\ shutdownPc \in {"cancel", "closed", "exited"} => ~DispatchStep
      /\ shutdownPc' # shutdownPc =>
           <<shutdownPc, shutdownPc'>> \in {<<"idle", "notify">>, <<"notify", "cancel">>,
                                          <<"cancel", "closed">>, <<"closed", "exited">>}
      /\ (shuttingDown /\ requests' # requests) =>
           /\ shutdownPc' = shutdownPc
           /\ UNCHANGED schedVars ]_vars

\* A cycle in progress ends in this step.
CompletionStep ==
  Cardinality({ s \in DOMAIN loops' : loops'[s].st = "cycle" }) < Cardinality(Dispatched)

Failed(schedule) == schedule.failed

\* C28: an error raised during a market's cycle does not stop the scheduler:
\* the cycle ends with the error reported, the market's next run is set on
\* the normal randomized interval from that moment, with no further delay,
\* and while the engine is running the loop is armed again for the next due
\* market.
C28_ErrorKeepsSchedulerGoing ==
  [][ /\ (CompletionStep /\ running) =>
           Cardinality({ s \in DOMAIN loops' : loops'[s].st \in {"timer", "idle"} })
             = Cardinality({ s \in Slots : loops[s].st \in {"timer", "idle"} }) + 1
      /\ \A i \in DOMAIN schedules' :
           Failed(schedules'[i]) =>
             /\ schedules'[i].nextRunAt >= schedules'[i].doneAt + Timing.cycleIntervalMinMs
             /\ schedules'[i].nextRunAt <= schedules'[i].doneAt + Timing.cycleIntervalMaxMs ]_vars

\* After the cycle of one market failed, the cycle of another is dispatched.
C28_Witness ==
  \E i \in DOMAIN schedules, s \in Slots :
    /\ Failed(schedules[i])
    /\ running
    /\ loops[s].st = "cycle"
    /\ loops[s].id # schedules[i].id
    /\ loops[s].startedAt >= schedules[i].doneAt

\* A tick of the expiry monitor that calls renewSession.
RenewalTick == RenewOk \/ RenewFail

\* C24: whenever the monitor ticks while the session, created in this run or
\* restored, has less than a tenth of its lifetime left or has expired, a new
\* session is created over the recorded markets; while a tenth or more is
\* left no renewal is attempted.
C24_RenewalAttemptedWhenDue ==
  [][ /\ (RenewalTick /\ sessionInfo \in {"expiring", "expired"}) => markets = "stored"
      /\ sessionInfo = "valid" => ~RenewalTick ]_vars

\* C18: when a renewal of the session has failed, the session-invalid signal
\* has been emitted and, from then on (until a renewal succeeds), no strategy
\* cycle is dispatched and no submission is signed.
C18_NoTradingAfterRenewalFailure ==
  [][ /\ RenewFail => sessionInvalid'
      /\ sessionInvalid => /\ ~DispatchStep
                           /\ signedCount' = signedCount ]_vars

IdleSession == InitSession /\ vNonce = 0 /\ nonce = 0
IdleFill == InitFill /\ hist = [o \in Orders |-> {0}]

Init == InitSession /\ IdleFill /\ InitSched /\ IdleMath /\ IdleExec /\ InitLife /\ IdleRenew /\ IdleRecover /\ IdleNotify /\ IdleCancel /\ IdleBasis /\ IdleCap /\ IdleSize /\ IdleBal /\ IdleRace /\ IdleTurn /\ IdleQuit /\ IdlePush
Next == SessionNext /\ UNCHANGED <<fillVars, schedVars, lifeVars, mathVars, execVars, renewVars, recVars, notifyVars, cancelVars, basisVars, capVars, sizeVars, balVars, raceVars, turnVars, quitVars, pushVars>>
Spec == Init /\ [][Next]_vars

InitFillOnly == IdleSession /\ InitFill /\ InitSched /\ IdleMath /\ IdleExec /\ InitLife /\ IdleRenew /\ IdleRecover /\ IdleNotify /\ IdleCancel /\ IdleBasis /\ IdleCap /\ IdleSize /\ IdleBal /\ IdleRace /\ IdleTurn /\ IdleQuit /\ IdlePush
NextFill == FillNext /\ UNCHANGED <<sessVars, schedVars, lifeVars, mathVars, execVars, renewVars, recVars, notifyVars, cancelVars, basisVars, capVars, sizeVars, balVars, raceVars, turnVars, quitVars, pushVars>>
SpecFill == InitFillOnly /\ [][NextFill]_vars

InitSchedOnly == IdleSession /\ IdleFill /\ InitSched /\ IdleMath /\ IdleExec /\ InitLife /\ IdleRenew /\ IdleRecover /\ IdleNotify /\ IdleCancel /\ IdleBasis /\ IdleCap /\ IdleSize /\ IdleBal /\ IdleRace /\ IdleTurn /\ IdleQuit /\ IdlePush
NextSched == SchedNext /\ UNCHANGED <<sessVars, fillVars, lifeVars, mathVars, execVars, renewVars, recVars, notifyVars, cancelVars, basisVars, capVars, sizeVars, balVars, raceVars, turnVars, quitVars, pushVars>>
NextObserved == SchedNextObserved /\ UNCHANGED <<sessVars, fillVars, lifeVars, mathVars, execVars, renewVars, recVars, notifyVars, cancelVars, basisVars, capVars, sizeVars, balVars, raceVars, turnVars, quitVars, pushVars>>
SpecSched == InitSchedOnly /\ [][NextSched]_vars
SpecObserved == InitSchedOnly /\ [][NextObserved]_vars

InitRestartOnly == IdleSession /\ IdleFill /\ InitRestart /\ IdleMath /\ IdleExec /\ InitLife /\ IdleRenew /\ IdleRecover /\ IdleNotify /\ IdleCancel /\ IdleBasis /\ IdleCap /\ IdleSize /\ IdleBal /\ IdleRace /\ IdleTurn /\ IdleQuit /\ IdlePush
SpecRestart == InitRestartOnly /\ [][NextSched]_vars

InitMathOnly == IdleSession /\ IdleFill /\ InitSched /\ InitMath /\ IdleExec /\ InitLife /\ IdleRenew /\ IdleRecover /\ IdleNotify /\ IdleCancel /\ IdleBasis /\ IdleCap /\ IdleSize /\ IdleBal /\ IdleRace /\ IdleTurn /\ IdleQuit /\ IdlePush
NextMath == MathNext /\ UNCHANGED <<sessVars, fillVars, schedVars, lifeVars, execVars, renewVars, recVars, notifyVars, cancelVars, basisVars, capVars, sizeVars, balVars, raceVars, turnVars, quitVars, pushVars>>
SpecMath == InitMathOnly /\ [][NextMath]_vars

InitExecOnly == IdleSession /\ IdleFill /\ InitSched /\ IdleMath /\ InitExec /\ InitLife /\ IdleRenew /\ IdleRecover /\ IdleNotify /\ IdleCancel /\ IdleBasis /\ IdleCap /\ IdleSize /\ IdleBal /\ IdleRace /\ IdleTurn /\ IdleQuit /\ IdlePush
NextExec == ExecNext /\ UNCHANGED <<sessVars, fillVars, schedVars, lifeVars, mathVars, renewVars, recVars, notifyVars, cancelVars, basisVars, capVars, sizeVars, balVars, raceVars, turnVars, quitVars, pushVars>>
SpecExec == InitExecOnly /\ [][NextExec]_vars

NextLife == LifeNext /\ UNCHANGED <<sessVars, fillVars, mathVars, execVars, renewVars, recVars, notifyVars, cancelVars, basisVars, capVars, sizeVars, balVars, raceVars, turnVars, quitVars, pushVars>>
SpecLife == InitSchedOnly /\ [][NextLife]_vars

InitRenewOnly == IdleSession /\ IdleFill /\ InitSched /\ IdleMath /\ IdleExec /\ InitLife /\ InitRenew /\ IdleRecover /\ IdleNotify /\ IdleCancel /\ IdleBasis /\ IdleCap /\ IdleSize /\ IdleBal /\ IdleRace /\ IdleTurn /\ IdleQuit /\ IdlePush
NextRenew == RenewOrTrade /\ UNCHANGED <<sessVars, fillVars, lifeVars, mathVars, execVars, recVars, notifyVars, cancelVars, basisVars, capVars, sizeVars, balVars, raceVars, turnVars, quitVars, pushVars>>
SpecRenew == InitRenewOnly /\ [][NextRenew]_vars

NotFill == <<sessVars, schedVars, lifeVars, mathVars, execVars, renewVars, recVars, notifyVars, cancelVars, basisVars, capVars, sizeVars, balVars, raceVars, turnVars, quitVars, pushVars>>
NextPoll == PollNext /\ UNCHANGED NotFill
\* seedFillTracker is awaited at start-up and setInterval keeps firing the
\* poll of every market (part_001 419); the venue answers now and then.
SpecPoll ==
  /\ InitFillOnly
  /\ [][NextPoll]_vars
  /\ WF_vars(SeedMarket /\ UNCHANGED NotFill)
  /\ \A i \in 1..Len(SeedMarkets) : WF_vars(PollAnswered(i) /\ UNCHANGED NotFill)

InitRecoverOnly == IdleSession /\ IdleFill /\ InitSched /\ IdleMath /\ IdleExec /\ InitLife /\ IdleRenew /\ InitRecover /\ IdleNotify /\ IdleCancel /\ IdleBasis /\ IdleCap /\ IdleSize /\ IdleBal /\ IdleRace /\ IdleTurn /\ IdleQuit /\ IdlePush
NextRecover == RecoverNext /\ UNCHANGED <<sessVars, fillVars, schedVars, lifeVars, mathVars, execVars, renewVars, notifyVars, cancelVars, basisVars, capVars, sizeVars, balVars, raceVars, turnVars, quitVars, pushVars>>
SpecRecover == InitRecoverOnly /\ [][NextRecover]_vars

InitNotifyOnly == IdleSession /\ IdleFill /\ InitSched /\ IdleMath /\ IdleExec /\ InitLife /\ IdleRenew /\ IdleRecover /\ InitNotify /\ IdleCancel /\ IdleBasis /\ IdleCap /\ IdleSize /\ IdleBal /\ IdleRace /\ IdleTurn /\ IdleQuit /\ IdlePush
NextNotify == NotifyNext /\ UNCHANGED <<sessVars, fillVars, schedVars, lifeVars, mathVars, execVars, renewVars, recVars, cancelVars, basisVars, capVars, sizeVars, balVars, raceVars, turnVars, quitVars, pushVars>>
SpecNotify == InitNotifyOnly /\ [][NextNotify]_vars

InitCancelOnly == IdleSession /\ IdleFill /\ InitSched /\ IdleMath /\ IdleExec /\ InitLife /\ IdleRenew /\ IdleRecover /\ IdleNotify /\ InitCancel /\ IdleBasis /\ IdleCap /\ IdleSize /\ IdleBal /\ IdleRace /\ IdleTurn /\ IdleQuit /\ IdlePush
NextCancel == CancelNext /\ UNCHANGED <<sessVars, fillVars, schedVars, lifeVars, mathVars, execVars, renewVars, recVars, notifyVars, basisVars, capVars, sizeVars, balVars, raceVars, turnVars, quitVars, pushVars>>
SpecCancel == InitCancelOnly /\ [][NextCancel]_vars

InitBasisOnly == IdleSession /\ IdleFill /\ InitSched /\ IdleMath /\ IdleExec /\ InitLife /\ IdleRenew /\ IdleRecover /\ IdleNotify /\ IdleCancel /\ InitBasis /\ IdleCap /\ IdleSize /\ IdleBal /\ IdleRace /\ IdleTurn /\ IdleQuit /\ IdlePush
NextBasis == BasisNext /\ UNCHANGED <<sessVars, fillVars, schedVars, lifeVars, mathVars, execVars, renewVars, recVars, notifyVars, cancelVars, capVars, sizeVars, balVars, raceVars, turnVars, quitVars, pushVars>>
SpecBasis == InitBasisOnly /\ [][NextBasis]_vars

InitCapOnly == IdleSession /\ IdleFill /\ InitSched /\ IdleMath /\ IdleExec /\ InitLife /\ IdleRenew /\ IdleRecover /\ IdleNotify /\ IdleCancel /\ IdleBasis /\ InitCap /\ IdleSize /\ IdleBal /\ IdleRace /\ IdleTurn /\ IdleQuit /\ IdlePush
NextCap == CapNext /\ UNCHANGED <<sessVars, fillVars, schedVars, lifeVars, mathVars, execVars, renewVars, recVars, notifyVars, cancelVars, basisVars, sizeVars, balVars, raceVars, turnVars, quitVars, pushVars>>
SpecCap == InitCapOnly /\ [][NextCap]_vars
InitSizeOnly == IdleSession /\ IdleFill /\ InitSched /\ IdleMath /\ IdleExec /\ InitLife /\ IdleRenew /\ IdleRecover /\ IdleNotify /\ IdleCancel /\ IdleBasis /\ IdleCap /\ InitSize /\ IdleBal /\ IdleRace /\ IdleTurn /\ IdleQuit /\ IdlePush
NextSize == SizeNext /\ UNCHANGED <<sessVars, fillVars, schedVars, lifeVars, mathVars, execVars, renewVars, recVars, notifyVars, cancelVars, basisVars, capVars, balVars, raceVars, turnVars, quitVars, pushVars>>
SpecSize == InitSizeOnly /\ [][NextSize]_vars
InitBalOnly == IdleSession /\ IdleFill /\ InitSched /\ IdleMath /\ IdleExec /\ InitLife /\ IdleRenew /\ IdleRecover /\ IdleNotify /\ IdleCancel /\ IdleBasis /\ IdleCap /\ IdleSize /\ InitBal /\ IdleRace /\ IdleTurn /\ IdleQuit /\ IdlePush
NextBal == BalNext /\ UNCHANGED <<sessVars, fillVars, schedVars, lifeVars, mathVars, execVars, renewVars, recVars, notifyVars, cancelVars, basisVars, capVars, sizeVars, raceVars, turnVars, quitVars, pushVars>>
SpecBal == InitBalOnly /\ [][NextBal]_vars
InitRaceOnly == IdleSession /\ IdleFill /\ InitSched /\ IdleMath /\ IdleExec /\ InitLife /\ IdleRenew /\ IdleRecover /\ IdleNotify /\ IdleCancel /\ IdleBasis /\ IdleCap /\ IdleSize /\ IdleBal /\ InitRace /\ IdleTurn /\ IdleQuit /\ IdlePush
NextRace == RaceNext /\ UNCHANGED <<sessVars, fillVars, schedVars, lifeVars, mathVars, execVars, renewVars, recVars, notifyVars, cancelVars, basisVars, capVars, sizeVars, balVars, turnVars, quitVars, pushVars>>
SpecRace == InitRaceOnly /\ [][NextRace]_vars
InitTurnOnly == IdleSession /\ IdleFill /\ InitSched /\ IdleMath /\ IdleExec /\ InitLife /\ IdleRenew /\ IdleRecover /\ IdleNotify /\ IdleCancel /\ IdleBasis /\ IdleCap /\ IdleSize /\ IdleBal /\ IdleRace /\ InitTurn /\ IdleQuit /\ IdlePush
NotTurn == <<sessVars, fillVars, schedVars, lifeVars, mathVars, execVars, renewVars, recVars, notifyVars, cancelVars, basisVars, capVars, sizeVars, balVars, raceVars, quitVars, pushVars>>
NextTurn == TurnNext /\ UNCHANGED NotTurn
\* The event loop runs a due timer (line 141), the premise of the claim is
\* that every cycle terminates, and time passes.
SpecTurn ==
  /\ InitTurnOnly
  /\ [][NextTurn]_vars
  /\ WF_vars(TurnTimerFire /\ UNCHANGED NotTurn)
  /\ WF_vars(TurnCycleDone /\ UNCHANGED NotTurn)
  /\ WF_vars(TurnTick /\ UNCHANGED NotTurn)
InitQuitOnly == IdleSession /\ IdleFill /\ InitSched /\ IdleMath /\ IdleExec /\ InitLife /\ IdleRenew /\ IdleRecover /\ IdleNotify /\ IdleCancel /\ IdleBasis /\ IdleCap /\ IdleSize /\ IdleBal /\ IdleRace /\ IdleTurn /\ InitQuit /\ IdlePush
NextQuit == QuitNext /\ UNCHANGED <<sessVars, fillVars, schedVars, lifeVars, mathVars, execVars, renewVars, recVars, notifyVars, cancelVars, basisVars, capVars, sizeVars, balVars, raceVars, turnVars, pushVars>>
SpecQuit == InitQuitOnly /\ [][NextQuit]_vars
InitPushOnly == IdleSession /\ IdleFill /\ InitSched /\ IdleMath /\ IdleExec /\ InitLife /\ IdleRenew /\ IdleRecover /\ IdleNotify /\ IdleCancel /\ IdleBasis /\ IdleCap /\ IdleSize /\ IdleBal /\ IdleRace /\ IdleTurn /\ IdleQuit /\ InitPush
NotPush == <<sessVars, fillVars, schedVars, lifeVars, mathVars, execVars, renewVars, recVars, notifyVars, cancelVars, basisVars, capVars, sizeVars, balVars, raceVars, turnVars, quitVars>>
NextPush == PushNext /\ UNCHANGED NotPush
\* a pending setTimeout callback runs
SpecPush ==
  /\ InitPushOnly
  /\ [][NextPush]_vars
  /\ WF_vars(ReconnectFire /\ UNCHANGED NotPush)
====
